---- MODULE Spec2Model ----
(***************************************************************************)
(* Qwen OAuth2 token lifecycle: QwenOAuth2Client (getAccessToken,          *)
(* refreshAccessToken, isTokenValid), QwenTokenManager (getValidToken,     *)
(* refreshToken, performTokenRefresh) and QwenOpenAIContentGenerator       *)
(* (withValidToken, generateContentStream, isAuthError).                   *)
(*                                                                         *)
(* Every asynchronous call is a task.  A task runs atomically from one     *)
(* await to the next (single-threaded cooperative scheduling); the steps   *)
(* of different tasks interleave.  An optional value (a field that may be  *)
(* undefined) is the empty tuple << >> when absent and <<v>> when present. *)
(* Access and refresh tokens are numbers: 0 is the token held at start,    *)
(* c is the token issued in the answer to refresh request number c, -n    *)
(* the token issued in the answer to the n-th poll of the device flow.     *)
(* file is the content of the credentials file (oauth_creds.json), absent  *)
(* when the file is missing or unreadable; login is the position of        *)
(* getQwenOAuthClient() and of the device flow it runs; pkce holds what    *)
(* the PKCE utilities returned; web is the callback server of the          *)
(* browser-redirect login.  A string is the tuple of its characters.       *)
(***************************************************************************)
EXTENDS Integers, Sequences, FiniteSets, TLC

VARIABLES now, credentials, currentToken, refreshPromise, promises, requests, apiKey, tasks,
          file, login, pkce, web

vars == <<now, credentials, currentToken, refreshPromise, promises, requests, apiKey, tasks,
          file, login, pkce, web>>

(* ------------------------------ bounds -------------------------------- *)

\* Concurrent top-level calls on one manager.
NumTasks == 2

\* Words in an error message.
MaxMsgWords == 3

\* Clock advances in one behaviour.
MaxTicks == 1

\* Date.now() at the start, in milliseconds.
StartTime == 1000000

\* The longest lifetime, in seconds, the server gives a device code.
MaxDeviceExpiresIn == 10

\* Distinct byte values crypto.randomBytes() yields, and the length of the
\* pattern of them its result repeats.
NumByteValues == 4

PatternLen == 3

\* generateCodeChallenge() calls made on one verifier.
MaxChallengeCalls == 2

\* Requests the callback server receives before it has closed.
MaxWebRequests == 2

(* ---------------------------- constants -------------------------------- *)

TOKEN_REFRESH_BUFFER_MS == 300000

DefaultExpiresIn == 3600

\* pollInterval / 1000: the seconds between two polls of the device flow.
PollIntervalSeconds == 5

\* maxRetries of getQwenOAuthClient().
maxRetries == 2

\* The bytes generateCodeVerifier() asks crypto.randomBytes() for.
VerifierBytes == 32

\* The bytes of a SHA-256 digest.
DigestBytes == 32

Tasks == 1 .. NumTasks

None == << >>

Some(v) == <<v>>

\* JavaScript truthiness of an optional number or token: undefined and 0 are
\* falsy for numbers; tokens of the model are non-empty strings when present.
TruthyNum(o) == o # None /\ o[1] # 0

Present(o) == o # None

(* ------------------------- QwenOAuth2Client --------------------------- *)

\* isTokenValid with the threshold itself counted as valid.
isTokenValidInclusive(creds, t) ==
    IF ~TruthyNum(creds.expiry_date)
    THEN FALSE
    ELSE t <= creds.expiry_date[1] - TOKEN_REFRESH_BUFFER_MS

isTokenValid(creds, t) ==
    IF ~TruthyNum(creds.expiry_date)
    THEN FALSE
    ELSE t < creds.expiry_date[1] - TOKEN_REFRESH_BUFFER_MS

\* getAccessToken() without the test for a stored refresh token.
GetAccessTokenBranchUnguarded(creds, t) ==
    IF Present(creds.access_token) /\ isTokenValid(creds, t) THEN "cached"
    ELSE "refresh"

\* The synchronous part of getAccessToken(): which of its three branches runs.
GetAccessTokenBranch(creds, t) ==
    IF Present(creds.access_token) /\ isTokenValid(creds, t) THEN "cached"
    ELSE IF Present(creds.refresh_token) THEN "refresh"
    ELSE "none"

\* response.statusText, as the word the messages print for the status n.
StatusText(n) == IF n = 400 THEN "400" ELSE IF n = 401 THEN "401" ELSE "500"

\* The text of a non-2xx answer to a refresh request, as its words.
RefreshBodies == {<<"error">>, <<"invalid", "grant">>}

\* What the token endpoint may answer to a refresh request.
ExpiresInValues == {None, Some(300), Some(DefaultExpiresIn)}

RefreshResponses ==
    [kind : {"neterr"}]
    \cup [kind : {"http"}, status : {401, 500}, body : RefreshBodies]
    \cup [kind : {"wrapped"}, has_token : BOOLEAN, expires_in : ExpiresInValues]
    \cup [kind : {"flat"}, has_token : BOOLEAN, rotates : BOOLEAN,
          expires_in : ExpiresInValues, expiry_date : {None}]

RefreshOk(resp) == resp.kind \in {"wrapped", "flat"}

\* The error refreshAccessToken() throws for an answer that is not 2xx.
RefreshError(resp) ==
    IF resp.kind = "neterr" THEN "NetworkError"
    ELSE IF resp.status = 401 THEN "RefreshExpired"
    ELSE "TokenRefreshError"

\* The message of the error refreshAccessToken() throws before any request
\* when the client holds no refresh token.
NoRefreshTokenMessage == <<"No", "refresh", "token", "available">>

\* refreshAccessToken() with one message for every non-2xx answer.
RefreshErrorMessageGeneric(resp) ==
    IF resp.kind = "neterr"
    THEN <<"fetch", "failed">>
    ELSE <<"Token", "refresh", "failed", StatusText(resp.status), "Response">> \o resp.body

\* The message of the error refreshAccessToken() throws for an answer that
\* is not 2xx, as its words.
RefreshErrorMessage(resp) ==
    IF resp.kind = "neterr"
    THEN <<"fetch", "failed">>
    ELSE IF resp.status = 401
    THEN <<"Refresh", "token", "expired", "or", "invalid", "Please", "re-authenticate">>
    ELSE <<"Token", "refresh", "failed", StatusText(resp.status), "Response">> \o resp.body

\* refreshAccessToken() storing the answer's refresh token as it came.
RefreshedTokensAsAnswered(creds, resp, c, t) ==
    [access_token |-> IF resp.has_token THEN Some(c) ELSE None,
     refresh_token |-> IF resp.kind = "flat" /\ resp.rotates THEN Some(c) ELSE None,
     expiry_date |-> IF TruthyNum(resp.expires_in)
                     THEN Some(t + resp.expires_in[1] * 1000)
                     ELSE IF resp.kind = "flat" /\ resp.has_token
                     THEN Some(t + DefaultExpiresIn * 1000)
                     ELSE None]

\* The credentials refreshAccessToken() builds from a 2xx answer to request c,
\* given the credentials the client holds when the answer arrives.
RefreshedTokens(creds, resp, c, t) ==
    IF resp.kind = "wrapped"
    THEN [access_token |-> IF resp.has_token THEN Some(c) ELSE None,
          refresh_token |-> creds.refresh_token,
          expiry_date |-> IF TruthyNum(resp.expires_in)
                          THEN Some(t + resp.expires_in[1] * 1000)
                          ELSE None]
    ELSE LET access == IF resp.has_token THEN Some(c) ELSE None
             fresh == IF resp.rotates THEN Some(c) ELSE None
             expiresIn == IF TruthyNum(resp.expires_in)
                          THEN resp.expires_in[1]
                          ELSE DefaultExpiresIn
         IN [access_token |-> access,
             refresh_token |-> IF ~Present(fresh) /\ Present(creds.refresh_token)
                               THEN creds.refresh_token
                               ELSE fresh,
             expiry_date |-> IF ~TruthyNum(resp.expiry_date) /\ Present(access)
                             THEN Some(t + expiresIn * 1000)
                             ELSE resp.expiry_date]

(* ------------------- errors thrown by a wrapped operation -------------- *)

\* A value of an error's status or code property: absent, a number or a string.
Undefined == [type |-> "undefined", v |-> 0]

Num(n) == [type |-> "number", v |-> n]

Str(n) == [type |-> "string", v |-> n]

CodeValues == {Undefined, Num(0), Num(401), Num(403), Num(500), Str(401)}

Truthy(x) == x.type = "string" \/ (x.type = "number" /\ x.v # 0)

\* The words an error message is made of; a message is its words in order,
\* separated by single spaces.
Vocabulary ==
    {"Unauthorized", "forbidden", "Invalid", "api", "Key", "authentication",
     "ACCESS", "denied", "Token", "expired", "timeout"}

Messages == UNION {[1 .. n -> Vocabulary] : n \in 0 .. MaxMsgWords}

\* String.prototype.toLowerCase on one word.
LowerWord(w) ==
    CASE w = "Unauthorized" -> "unauthorized"
      [] w = "Invalid" -> "invalid"
      [] w = "Key" -> "key"
      [] w = "ACCESS" -> "access"
      [] w = "Token" -> "token"
      [] OTHER -> w

toLowerCase(msg) == [i \in 1 .. Len(msg) |-> LowerWord(msg[i])]

\* String.prototype.includes: the phrase occurs as consecutive words.
includes(msg, phrase) ==
    \E i \in 1 .. (Len(msg) - Len(phrase) + 1) :
        SubSeq(msg, i, i + Len(phrase) - 1) = phrase

\* Errors an operation may throw: any message without status or code, and every
\* combination of status and code on a message that names no cause.
Errors ==
    [msg : Messages, status : {Undefined}, code : {Undefined}]
    \cup [msg : {<<"timeout">>}, status : CodeValues, code : CodeValues]

\* Outcomes of the retried operation.
RetryErrors ==
    {[msg |-> <<"Unauthorized">>, status |-> Num(401), code |-> Undefined],
     [msg |-> <<"timeout">>, status |-> Num(500), code |-> Undefined],
     [msg |-> <<"Token", "expired">>, status |-> Undefined, code |-> Undefined]}

\* isAuthError without the message test on 'authentication'.
isAuthErrorNoAuthenticationWord(error) ==
    LET errorMessage == toLowerCase(error.msg)
        errorCode == IF Truthy(error.status) THEN error.status ELSE error.code
    IN \/ errorCode = Num(401)
       \/ errorCode = Num(403)
       \/ includes(errorMessage, <<"unauthorized">>)
       \/ includes(errorMessage, <<"forbidden">>)
       \/ includes(errorMessage, <<"invalid", "api", "key">>)
       \/ includes(errorMessage, <<"access", "denied">>)
       \/ (includes(errorMessage, <<"token">>) /\ includes(errorMessage, <<"expired">>))

isAuthError(error) ==
    LET errorMessage == toLowerCase(error.msg)
        errorCode == IF Truthy(error.status) THEN error.status ELSE error.code
    IN \/ errorCode = Num(401)
       \/ errorCode = Num(403)
       \/ includes(errorMessage, <<"unauthorized">>)
       \/ includes(errorMessage, <<"forbidden">>)
       \/ includes(errorMessage, <<"invalid", "api", "key">>)
       \/ includes(errorMessage, <<"authentication">>)
       \/ includes(errorMessage, <<"access", "denied">>)
       \/ (includes(errorMessage, <<"token">>) /\ includes(errorMessage, <<"expired">>))

(* ------------------------------ tasks ---------------------------------- *)

\* An error object: a message and the optional status and code properties.
\* The errors of the client, the manager and the generator carry no status.
Err(what, cause) == [msg |-> <<what, cause>>, status |-> Undefined, code |-> Undefined]

NoResult == [st |-> "none", val |-> None, err |-> << >>]

Ok(v) == [st |-> "ok", val |-> v, err |-> << >>]

Failed(e) == [st |-> "err", val |-> None, err |-> <<e>>]

\* Fills the error field of an outcome that is a result.
NoError == Err("", "")

\* A call that has not started.  kind: which entry point was called; pc: the
\* await the call is suspended at; wait: the promise it awaits; acc: the token
\* of an already resolved getAccessToken(); overlap: the refresh requests in
\* flight when the call started; snap: the clock and the client's credentials
\* when the call started; token, cause: what getValidToken() or
\* refreshToken() gave the wrapper; ops: the token of each invocation of the
\* wrapped operation; opErrs: the errors those invocations threw; forced: the
\* refreshToken() calls the wrapper made; savedKey: originalApiKey of the
\* running operation; res: how the call settled.
IdleTask ==
    [kind |-> "none", pc |-> "idle", wait |-> 0, acc |-> None, overlap |-> {},
     snap |-> << >>, token |-> None, cause |-> "", ops |-> << >>, opErrs |-> << >>, forced |-> 0,
     savedKey |-> None, res |-> NoResult]

InFlight(reqs) == {c \in 1 .. Len(reqs) : reqs[c].st = "inflight"}

RequestsOf(t) == {c \in 1 .. Len(requests) : requests[c].task = t}

Done(t) == tasks[t].pc = "done"

Finish(tk, r) == [tk EXCEPT !.pc = "done", !.res = r]

\* getQwenOAuthClient() not running.  pc: the await it is suspended at;
\* loadToken: the token getAccessToken() yielded in
\* loadCachedQwenCredentials(); flows: the authWithQwenDeviceFlow() calls
\* started; expiresIn, maxAttempts: the lifetime of the running flow's device
\* code and the cap of its polling loop; answers: what each pollDeviceToken()
\* call of that flow was answered; flowPolls: the pollDeviceToken() calls of
\* that flow; authCalls, pollCalls, refreshCalls: the
\* requestDeviceAuthorization(), pollDeviceToken() and refreshAccessToken()
\* requests sent since the start; writes: the cacheQwenCredentials() calls;
\* results: what each finished flow returned; loadFault: what
\* loadCachedQwenCredentials() caught while reading the file; flowSleeps: the
\* pollInterval timeouts the polling loop of the running flow awaited;
\* cancel: the pollDeviceToken() and cacheQwenCredentials() calls made when
\* cancelQwenAuth() was called; authAnswer, authError: what
\* requestDeviceAuthorization() of the running flow was answered when it
\* failed, and the message of the error it threw; writeErrors: the
\* cacheQwenCredentials() calls that rejected; pkcePairs: the
\* generatePKCEPair() calls made, the n-th call returning pair n;
\* pairsByFlow: the pair each flow started with; authSent: the body of the
\* running flow's requestDeviceAuthorization(), as the pair its
\* code_challenge belongs to and the code_challenge_method; pollsSent: the
\* pair whose code_verifier each pollDeviceToken() of the running flow sent;
\* suppressed: config.isBrowserLaunchSuppressed(); launches: the open()
\* calls made; launch: how the open() call of the running flow ended.
IdleLogin ==
    [pc |-> "idle", loadToken |-> None, flows |-> 0, expiresIn |-> None, maxAttempts |-> 0,
     answers |-> << >>, flowPolls |-> 0, authCalls |-> 0, pollCalls |-> 0,
     refreshCalls |-> 0, writes |-> 0, results |-> << >>,
     loadFault |-> "", flowSleeps |-> 0, cancel |-> None,
     authAnswer |-> None, authError |-> << >>, writeErrors |-> 0,
     pkcePairs |-> 0, pairsByFlow |-> << >>, authSent |-> None, pollsSent |-> << >>,
     suppressed |-> TRUE, launches |-> 0, launch |-> None]

(* ------------------------- QwenTokenManager --------------------------- *)

\* performTokenRefresh() up to its await: a new promise, and the request that
\* refreshAccessToken() sends unless it throws for want of a refresh token;
\* via names the method that called performTokenRefresh().
StartPerform(creds, proms, reqs, t, via) ==
    LET p == Len(proms) + 1
        sends == Present(creds.refresh_token)
    IN [p |-> p,
        promises |-> Append(proms, [creator |-> t, via |-> via, st |-> "pending",
                                    tok |-> None, cause |-> "", throws |-> ~sends]),
        requests |-> IF sends
                     THEN Append(reqs, [task |-> t, promise |-> p, st |-> "inflight",
                                        answer |-> << >>, error |-> << >>, stored |-> None])
                     ELSE reqs]

\* getValidToken() settles: a direct call is complete, a wrapper goes on.
GvtReturn(tk, tok, cause) ==
    IF tk.kind = "gvt"
    THEN Finish(tk, IF cause = "" THEN Ok(tok) ELSE Failed(Err("Token refresh failed", cause)))
    ELSE [tk EXCEPT !.pc = "gvt_ret", !.token = tok, !.cause = cause]

\* refreshToken() settles.
RtReturn(tk, tok, cause) ==
    IF tk.kind = "rt"
    THEN Finish(tk, IF cause = "" THEN Ok(tok) ELSE Failed(Err("Token refresh failed", cause)))
    ELSE [tk EXCEPT !.pc = "rt_ret", !.token = tok, !.cause = cause]

\* getValidToken() after `await this.qwenClient.getAccessToken()`: tok is the
\* token it yielded, None when it yielded none or threw.
GvtAfterAccess(t, tok, creds, reqs) ==
    IF Present(tok)
    THEN /\ currentToken' = tok
         /\ tasks' = [tasks EXCEPT ![t] = GvtReturn(@, tok, "")]
         /\ requests' = reqs
         /\ UNCHANGED <<refreshPromise, promises>>
    ELSE LET s == StartPerform(creds, promises, reqs, t, "getValidToken")
         IN /\ refreshPromise' = s.p
            /\ promises' = s.promises
            /\ requests' = s.requests
            /\ tasks' = [tasks EXCEPT ![t].pc = "gvt_wait", ![t].wait = s.p]
            /\ UNCHANGED currentToken

\* performTokenRefresh() assigning currentToken before it tests the token.
CachedTokenAssignedFirst(cached, tok, cause) == tok

\* currentToken after performTokenRefresh(): the assignment is reached only
\* when refreshAccessToken() returned an access token.
CachedTokenAfterRefresh(cached, tok, cause) == IF cause = "" THEN tok ELSE cached

\* The marker cleared only after a refresh that succeeded.
MarkerClearedOnSuccess(marker, cause) == IF cause = "" THEN 0 ELSE marker

\* refreshPromise after the finally block of getValidToken() or
\* refreshToken(), the awaited refresh having settled with cause.
MarkerAfterFinally(marker, cause) == 0

\* performTokenRefresh() after its await, then the finally block of the call
\* that created promise p (the first to await it): tok is the refreshed
\* token, None with the cause when the refresh failed.
SettlePromise(p, tok, cause, reqs) ==
    LET t == promises[p].creator
    IN /\ promises' = [promises EXCEPT ![p].st = IF cause = "" THEN "fulfilled" ELSE "rejected",
                                        ![p].tok = tok,
                                        ![p].cause = cause]
       /\ currentToken' = CachedTokenAfterRefresh(currentToken, tok, cause)
       /\ refreshPromise' = MarkerAfterFinally(refreshPromise, cause)
       /\ tasks' = [tasks EXCEPT ![t] = IF @.pc = "gvt_wait"
                                         THEN GvtReturn(@, tok, cause)
                                         ELSE RtReturn(@, tok, cause)]
       /\ requests' = reqs

\* getValidToken() up to its first await, for a direct call or inside a wrapper.
GetValidTokenStart(t, kind) ==
    /\ tasks[t].pc = "idle"
    /\ LET tk == [tasks[t] EXCEPT !.kind = kind, !.overlap = InFlight(requests),
                                 !.snap = <<[creds |-> credentials, now |-> now]>>]
           branch == GetAccessTokenBranch(credentials, now)
       IN IF refreshPromise # 0
          THEN /\ tasks' = [tasks EXCEPT ![t] = [tk EXCEPT !.pc = "attached",
                                                          !.wait = refreshPromise]]
               /\ UNCHANGED requests
          ELSE IF branch = "cached"
          THEN /\ tasks' = [tasks EXCEPT ![t] = [tk EXCEPT !.pc = "access_resolved",
                                                          !.acc = credentials.access_token]]
               /\ UNCHANGED requests
          ELSE IF branch = "refresh"
          THEN /\ tasks' = [tasks EXCEPT ![t] = [tk EXCEPT !.pc = "access_wait"]]
               /\ requests' = Append(requests, [task |-> t, promise |-> 0, st |-> "inflight",
                                                answer |-> << >>, error |-> << >>, stored |-> None])
          ELSE /\ tasks' = [tasks EXCEPT ![t] = [tk EXCEPT !.pc = "access_resolved"]]
               /\ UNCHANGED requests
    /\ UNCHANGED <<now, credentials, currentToken, refreshPromise, promises, apiKey, file, login, pkce, web>>

CallGetValidToken(t) == GetValidTokenStart(t, "gvt")

\* refreshToken() up to its await, for a direct call or inside withValidToken.
RefreshTokenStart(t, tk) ==
    LET s == StartPerform(credentials, promises, requests, t, "refreshToken")
    IN /\ refreshPromise' = s.p
       /\ promises' = s.promises
       /\ requests' = s.requests
       /\ tasks' = [tasks EXCEPT ![t] = [tk EXCEPT !.pc = "rt_wait", !.wait = s.p]]

CallRefreshToken(t) ==
    /\ tasks[t].pc = "idle"
    /\ RefreshTokenStart(t, [tasks[t] EXCEPT !.kind = "rt", !.overlap = InFlight(requests),
                                 !.snap = <<[creds |-> credentials, now |-> now]>>])
    /\ UNCHANGED <<now, credentials, currentToken, apiKey, file, login, pkce, web>>

\* getValidToken() resumes after a getAccessToken() that settled without a request.
AccessResolved(t) ==
    /\ tasks[t].pc = "access_resolved"
    /\ GvtAfterAccess(t, tasks[t].acc, credentials, requests)
    /\ UNCHANGED <<now, credentials, apiKey, file, login, pkce, web>>

\* A call that found a refresh in flight resumes with that promise's outcome.
AttachedResume(t) ==
    /\ tasks[t].pc = "attached"
    /\ promises[tasks[t].wait].st # "pending"
    /\ LET pr == promises[tasks[t].wait]
       IN tasks' = [tasks EXCEPT ![t] = GvtReturn(@, pr.tok, pr.cause)]
    /\ UNCHANGED <<now, credentials, currentToken, refreshPromise, promises, requests, apiKey, file, login, pkce, web>>

\* refreshAccessToken() threw 'No refresh token available' inside
\* performTokenRefresh(): the promise rejects.
ImmediateReject(p) ==
    /\ p \in 1 .. Len(promises)
    /\ promises[p].st = "pending"
    /\ promises[p].throws
    /\ SettlePromise(p, None, "NoRefreshToken", requests)
    /\ UNCHANGED <<now, credentials, apiKey, file, login, pkce, web>>

(* -------------------- QwenOAuth2Client, the calls ---------------------- *)

\* getAccessToken() called on the client directly, up to its await.  The
\* calls are numbered in the order they start.
CallGetAccessToken(t) ==
    /\ tasks[t].pc = "idle"
    /\ \A u \in Tasks : u < t => tasks[u].pc # "idle"
    /\ LET tk == [tasks[t] EXCEPT !.kind = "gat", !.overlap = InFlight(requests),
                                 !.snap = <<[creds |-> credentials, now |-> now]>>]
           branch == GetAccessTokenBranch(credentials, now)
       IN IF branch = "cached"
          THEN /\ tasks' = [tasks EXCEPT ![t] = Finish(tk, Ok(credentials.access_token))]
               /\ UNCHANGED requests
          ELSE IF branch = "refresh"
          THEN /\ tasks' = [tasks EXCEPT ![t] = [tk EXCEPT !.pc = "gat_wait"]]
               /\ requests' = Append(requests, [task |-> t, promise |-> 0, st |-> "inflight",
                                                answer |-> << >>, error |-> << >>, stored |-> None])
          ELSE /\ tasks' = [tasks EXCEPT ![t] = Finish(tk, Ok(None))]
               /\ UNCHANGED requests
    /\ UNCHANGED <<now, credentials, currentToken, refreshPromise, promises, apiKey, file, login, pkce, web>>

\* refreshAccessToken() dropping the access token that a refused refresh was
\* meant to replace.
StoredAfterAnswerDropsToken(creds, tokens, ok) ==
    IF ok THEN tokens ELSE [creds EXCEPT !.access_token = None]

\* The credentials the client holds when refreshAccessToken() ends:
\* setCredentials(tokens) is its last statement but one, after every throw.
StoredAfterAnswer(creds, tokens, ok) == IF ok THEN tokens ELSE creds

\* The token endpoint answers refresh request c: refreshAccessToken() runs from
\* its fetch to its end, then the caller that awaits it runs to its next await.
\* The request keeps the answer, the message of the error thrown and the
\* refresh token of the credentials stored.
ServerRespond(c, resp) ==
    /\ LET r == requests[c]
           ok == RefreshOk(resp)
           tokens == RefreshedTokens(credentials, resp, c, now)
           reqs == [requests EXCEPT ![c].st = "answered", ![c].answer = <<resp>>,
                                    ![c].error = IF ok THEN << >> ELSE RefreshErrorMessage(resp),
                                    ![c].stored = IF ok THEN tokens.refresh_token ELSE None]
           creds == StoredAfterAnswer(credentials, tokens, ok)
           tok == IF ok THEN tokens.access_token ELSE None
       IN /\ credentials' = creds
          /\ IF r.promise # 0
             THEN SettlePromise(r.promise, tok,
                                IF ~ok THEN RefreshError(resp)
                                ELSE IF ~Present(tok) THEN "NoTokenReturned"
                                ELSE "",
                                reqs)
             ELSE IF tasks[r.task].kind = "gat"
             THEN /\ tasks' = [tasks EXCEPT ![r.task] =
                                  Finish(@, IF ok THEN Ok(tok)
                                            ELSE Failed(Err("refreshAccessToken", RefreshError(resp))))]
                  /\ requests' = reqs
                  /\ UNCHANGED <<currentToken, refreshPromise, promises>>
             ELSE GvtAfterAccess(r.task, tok, creds, reqs)
    /\ UNCHANGED <<now, apiKey, file, login, pkce, web>>

\* Time passes: Date.now() grows by a millisecond.
Tick ==
    /\ now < StartTime + MaxTicks
    /\ now' = now + 1
    /\ UNCHANGED <<credentials, currentToken, refreshPromise, promises, requests, apiKey, tasks, file, login, pkce, web>>

(* ------------- getQwenOAuthClient and the device flow ------------------ *)

\* Math.ceil(a / b) for a >= 0 and b > 0.
Ceil(a, b) == (a + b - 1) \div b

\* The credentials of a client just constructed.
EmptyCredentials == [access_token |-> None, refresh_token |-> None, expiry_date |-> None]

\* What the device-code endpoint may answer: a network failure, a non-2xx
\* status with a response body, or a device code with its lifetime in seconds.
DeviceExpiresInValues == {0, PollIntervalSeconds - 1, MaxDeviceExpiresIn}

DeviceAuthResponses ==
    [ok : {FALSE}, kind : {"neterr"}]
    \cup [ok : {FALSE}, kind : {"http"}, status : {400, 500}, body : RefreshBodies]
    \cup [ok : {TRUE}, expires_in : DeviceExpiresInValues]

\* requestDeviceAuthorization() naming the status without the response body.
DeviceAuthErrorMessageNoBody(resp) ==
    IF resp.kind = "neterr"
    THEN <<"fetch", "failed">>
    ELSE <<"Device", "authorization", "failed", StatusText(resp.status)>>

\* The message of the error requestDeviceAuthorization() throws, as its words.
DeviceAuthErrorMessage(resp) ==
    IF resp.kind = "neterr"
    THEN <<"fetch", "failed">>
    ELSE <<"Device", "authorization", "failed", StatusText(resp.status), "Response">>
         \o resp.body

\* What the token endpoint may answer to a poll: 'pending'; 'success' with or
\* without an access token and with or without expires_in; a network
\* failure; a non-2xx status with a response body.
PollResponses ==
    [kind : {"pending", "neterr"}]
    \cup [kind : {"success"}, has_token : {TRUE}, expires_in : {None, Some(DefaultExpiresIn)}]
    \cup [kind : {"success"}, has_token : {FALSE}, expires_in : {None}]
    \cup [kind : {"http"}, status : {401, 500}, body : {<<"error">>, <<"code", "401">>}]

\* The message of the error pollDeviceToken() throws, as its words.
PollErrorMessage(resp) ==
    IF resp.kind = "neterr"
    THEN <<"fetch", "failed">>
    ELSE <<"Device", "token", "poll", "failed", StatusText(resp.status), "Response">>
         \o resp.body

PollFailed(resp) == resp.kind \in {"neterr", "http"}

\* The catch block of the polling loop with no error ending the attempt.
PollErrorEndsFlowNever(resp) == FALSE

\* The catch block of the polling loop: whether the error ends the attempt.
PollErrorEndsFlow(resp) == includes(PollErrorMessage(resp), <<"401">>)

\* The access and refresh token the server issues in answer to the n-th poll:
\* the tokens of the device flow are the negative numbers.
DeviceToken(n) == Some(0 - n)

\* The credentials authWithQwenDeviceFlow() builds from a successful poll,
\* the n-th of the login, answered at time t.
DeviceCredentials(resp, n, t) ==
    [access_token |-> DeviceToken(n),
     refresh_token |-> DeviceToken(n),
     expiry_date |-> IF TruthyNum(resp.expires_in)
                     THEN Some(t + resp.expires_in[1] * 1000)
                     ELSE None]

\* The retry loop of getQwenOAuthClient() with one attempt more.
AnotherFlowOneMore(lg) == lg.flows < maxRetries + 1

\* The retry loop of getQwenOAuthClient(): whether another flow is started
\* after lg.flows failed ones.
AnotherFlow(lg) == lg.flows < maxRetries

\* One pair generated for the login and kept for every flow.
PairOfLogin(lg) == IF lg.pkcePairs = 0 THEN 1 ELSE lg.pkcePairs

\* The pair a flow uses: authWithQwenDeviceFlow() calls generatePKCEPair()
\* first thing, so it is the pair of a new call.
PairOfFlow(lg) == lg.pkcePairs + 1

\* authWithQwenDeviceFlow() is called: it generates the PKCE pair and runs to
\* its first await, the request for a device code.
StartFlow(lg) ==
    [lg EXCEPT !.pc = "auth_wait", !.flows = @ + 1, !.authCalls = @ + 1,
               !.expiresIn = None, !.maxAttempts = 0, !.answers = << >>, !.flowPolls = 0,
               !.flowSleeps = 0, !.authAnswer = None, !.authError = << >>,
               !.pkcePairs = PairOfFlow(lg),
               !.pairsByFlow = Append(@, PairOfFlow(lg)),
               !.authSent = Some([challenge_of |-> PairOfFlow(lg), method |-> "S256"]),
               !.pollsSent = << >>, !.launch = None]

\* authWithQwenDeviceFlow() returns false.
FlowFailed(lg) == [lg EXCEPT !.pc = "flow_done", !.results = Append(@, FALSE)]

\* loadCachedQwenCredentials() taking no cached token for usable.
LoadSucceededNever(tok) == FALSE

\* loadCachedQwenCredentials() returns true when getAccessToken() yielded a token.
LoadSucceeded(tok) == Present(tok)

\* loadCachedQwenCredentials() returns with the token tok, None when the file
\* could not be read or getAccessToken() threw: getQwenOAuthClient() returns
\* the client or starts the first flow.
AfterLoad(lg, tok) ==
    IF LoadSucceeded(tok)
    THEN [lg EXCEPT !.pc = "returned", !.loadToken = tok]
    ELSE StartFlow([lg EXCEPT !.loadToken = tok])

\* The polling loop with one attempt more than maxAttempts.
MoreAttemptsOneMore(lg) == Len(lg.answers) < lg.maxAttempts + 1

\* The condition of the polling loop, after Len(lg.answers) attempts.
MoreAttempts(lg) == Len(lg.answers) < lg.maxAttempts

\* Whether the polling loop awaits the pollInterval timeout after the answer
\* resp, which did not end the flow: it does on 'pending' and in the catch
\* block; any other answer falls through both if statements to the next
\* iteration.
SleepsAfter(resp) == resp.kind = "pending" \/ PollFailed(resp)

\* The polling loop goes on: the next pollDeviceToken() is sent, or the loop
\* ends with the attempts used up and the flow returns false.
NextAttempt(lg) ==
    IF MoreAttempts(lg)
    THEN [lg EXCEPT !.pc = "poll_wait", !.pollCalls = @ + 1, !.flowPolls = @ + 1,
                    !.pollsSent = Append(@, [verifier_of |-> lg.pkcePairs])]
    ELSE FlowFailed(lg)

\* What fs.readFile() and JSON.parse() throw on a credentials file that
\* yields no credentials: the file is missing, cannot be read, or does not
\* hold JSON.
LoadFaults == {"ENOENT", "EACCES", "SyntaxError"}

\* The catch block of loadCachedQwenCredentials() letting all but a missing
\* file through.
LoadFaultCaughtIfMissing(fault) == fault = "ENOENT"

\* The catch block of loadCachedQwenCredentials(): it catches whatever the
\* try block threw.
LoadFaultCaught(fault) == TRUE

\* getQwenOAuthClient() is called: the client is constructed, the
\* credentials file is read and getAccessToken() is called on what it held.
\* A file that yields no credentials throws fault inside the try block.
StartLogin(fault) ==
    /\ login.pc = "idle"
    /\ IF file = None
       THEN /\ login' = IF LoadFaultCaught(fault)
                         THEN AfterLoad([login EXCEPT !.loadFault = fault], None)
                         ELSE [login EXCEPT !.pc = "threw", !.loadFault = fault]
            /\ UNCHANGED credentials
       ELSE LET branch == GetAccessTokenBranch(file[1], now)
            IN /\ credentials' = file[1]
               /\ login' = IF branch = "cached" THEN AfterLoad(login, file[1].access_token)
                            ELSE IF branch = "refresh"
                            THEN [login EXCEPT !.pc = "load_wait", !.refreshCalls = @ + 1]
                            ELSE AfterLoad(login, None)
    /\ UNCHANGED <<now, currentToken, refreshPromise, promises, requests, apiKey, tasks, file, pkce, web>>

\* The token endpoint answers the refresh that getAccessToken() started
\* inside loadCachedQwenCredentials().
LoadRefreshAnswered(resp) ==
    /\ login.pc = "load_wait"
    /\ LET tokens == RefreshedTokens(credentials, resp, login.refreshCalls, now)
       IN IF RefreshOk(resp)
          THEN /\ credentials' = tokens
               /\ login' = AfterLoad(login, tokens.access_token)
          ELSE /\ login' = AfterLoad(login, None)
               /\ UNCHANGED credentials
    /\ UNCHANGED <<now, currentToken, refreshPromise, promises, requests, apiKey, tasks, file, pkce, web>>

\* How the launch of the browser may end: open() resolves and the child
\* process runs; open() rejects; open() resolves and the child process emits
\* 'error' to the listener the flow attached.
LaunchOutcomes == {"opened", "threw", "child_error"}

\* The launch with no try block around open().
LaunchEndsFlowOnThrow(outcome) == outcome = "threw"

\* Whether the outcome of the launch ends the flow: the rejection of open()
\* is caught where it happens and the 'error' event has a listener.
LaunchEndsFlow(outcome) == FALSE

\* requestDeviceAuthorization() settles: the outer catch block returns false,
\* or the flow prints the URL and, unless the launch is suppressed, awaits
\* open(); with the launch suppressed it computes maxAttempts and sends its
\* first poll.
DeviceAuthAnswered(resp) ==
    /\ login.pc = "auth_wait"
    /\ login' = IF resp.ok
                 THEN LET lg == [login EXCEPT
                                    !.expiresIn = Some(resp.expires_in),
                                    !.maxAttempts = Ceil(resp.expires_in, PollIntervalSeconds)]
                      IN IF lg.suppressed
                         THEN NextAttempt(lg)
                         ELSE [lg EXCEPT !.pc = "open_wait", !.launches = @ + 1]
                 ELSE FlowFailed([login EXCEPT !.authAnswer = Some(resp),
                                                !.authError = DeviceAuthErrorMessage(resp)])
    /\ UNCHANGED <<now, credentials, currentToken, refreshPromise, promises, requests, apiKey,
                   tasks, file, pkce, web>>

\* open() settles, or the child process it started emits 'error' at once:
\* the flow sends its first poll.
BrowserSettled(outcome) ==
    /\ login.pc = "open_wait"
    /\ login' = IF LaunchEndsFlow(outcome)
                 THEN FlowFailed([login EXCEPT !.launch = Some(outcome)])
                 ELSE NextAttempt([login EXCEPT !.launch = Some(outcome)])
    /\ UNCHANGED <<now, credentials, currentToken, refreshPromise, promises, requests, apiKey,
                   tasks, file, pkce, web>>

\* pollDeviceToken() settles.  On success with a token the credentials are
\* set and the write of the credentials file is awaited; on 'pending' and on
\* an error that does not end the attempt the loop sleeps and goes on.
PollAnswered(resp) ==
    /\ login.pc = "poll_wait"
    /\ LET lg == [login EXCEPT !.answers = Append(@, resp)]
       IN IF resp.kind = "success" /\ resp.has_token
          THEN /\ credentials' = DeviceCredentials(resp, login.pollCalls, now)
               /\ login' = [lg EXCEPT !.pc = "write_wait"]
          ELSE /\ login' = IF PollFailed(resp) /\ PollErrorEndsFlow(resp)
                            THEN FlowFailed(lg)
                            ELSE IF SleepsAfter(resp)
                            THEN NextAttempt([lg EXCEPT !.flowSleeps = @ + 1])
                            ELSE NextAttempt(lg)
               /\ UNCHANGED credentials
    /\ UNCHANGED <<now, currentToken, refreshPromise, promises, requests, apiKey, tasks, file, pkce, web>>

\* The flow returns true with the credentials file left unwritten.
WriteSkipped ==
    /\ login.pc = "write_wait"
    /\ login' = [login EXCEPT !.pc = "flow_done", !.results = Append(@, TRUE)]
    /\ UNCHANGED <<now, credentials, currentToken, refreshPromise, promises, requests, apiKey,
                   tasks, file, pkce, web>>

\* cacheQwenCredentials() has written the file (the write is taken to
\* succeed): the flow returns true.
WriteDone ==
    /\ login.pc = "write_wait"
    /\ file' = Some(credentials)
    /\ login' = [login EXCEPT !.pc = "flow_done", !.writes = @ + 1,
                              !.results = Append(@, TRUE)]
    /\ UNCHANGED <<now, credentials, currentToken, refreshPromise, promises, requests, apiKey,
                   tasks, pkce, web>>

\* The content of the credentials file while fs.writeFile() is writing the
\* JSON of creds: the file was opened with flag 'w', which truncates it, and
\* holds a proper prefix of the text, which does not parse.
PartialFile(creds) == Some([prefix_of |-> creds])

IsPartial(content) == content # None /\ "prefix_of" \in DOMAIN content[1]

\* cacheQwenCredentials(): fs.mkdir() has settled and fs.writeFile() has
\* opened the file; the text is not yet written.
WriteOpened ==
    /\ login.pc = "write_wait"
    /\ file' = PartialFile(credentials)
    /\ login' = [login EXCEPT !.pc = "write_open"]
    /\ UNCHANGED <<now, credentials, currentToken, refreshPromise, promises, requests, apiKey,
                   tasks, pkce, web>>

\* fs.writeFile() has written the text and closed the file: the flow returns
\* true.
WriteCompleted ==
    /\ login.pc = "write_open"
    /\ file' = Some(credentials)
    /\ login' = [login EXCEPT !.pc = "flow_done", !.writes = @ + 1,
                              !.results = Append(@, TRUE)]
    /\ UNCHANGED <<now, credentials, currentToken, refreshPromise, promises, requests, apiKey,
                   tasks, pkce, web>>

\* fs.mkdir() or fs.writeFile() rejects (the message of a file system error
\* names no 401): the await of tokenUpdateCallback is inside the try block of
\* the polling loop, whose catch block logs, sleeps and lets the loop go on.
WriteFailed ==
    /\ login.pc \in {"write_wait", "write_open"}
    /\ login' = NextAttempt([login EXCEPT !.flowSleeps = @ + 1, !.writeErrors = @ + 1])
    /\ UNCHANGED <<now, credentials, currentToken, refreshPromise, promises, requests, apiKey,
                   tasks, file, pkce, web>>

\* loadCachedQwenCredentials() in another process reads the credentials
\* file: the call keeps what fs.readFile() returned.
OtherProcessLoads(t) ==
    /\ tasks[t].pc = "idle"
    /\ tasks' = [tasks EXCEPT ![t] = Finish([@ EXCEPT !.kind = "load"], Ok(file))]
    /\ UNCHANGED <<now, credentials, currentToken, refreshPromise, promises, requests, apiKey,
                   file, login, pkce, web>>

\* cancelQwenAuth() is called while a device flow is awaiting the device code
\* or a poll: the hook's state is reset and the callbacks are cleared;
\* authWithQwenDeviceFlow() reads neither.  login.cancel records the calls
\* made so far.
CancelQwenAuth ==
    /\ login.pc \in {"auth_wait", "poll_wait"}
    /\ login.cancel = None
    /\ login' = [login EXCEPT !.cancel = Some([polls |-> login.pollCalls,
                                                writes |-> login.writes])]
    /\ UNCHANGED <<now, credentials, currentToken, refreshPromise, promises, requests, apiKey,
                   tasks, file, pkce, web>>

\* getQwenOAuthClient() resumes after authWithQwenDeviceFlow(): it returns the
\* client, starts the flow again or exits the process.
FlowReturned ==
    /\ login.pc = "flow_done"
    /\ login' = IF login.results[Len(login.results)]
                 THEN [login EXCEPT !.pc = "returned"]
                 ELSE IF AnotherFlow(login) THEN StartFlow(login)
                 ELSE [login EXCEPT !.pc = "exited"]
    /\ UNCHANGED <<now, credentials, currentToken, refreshPromise, promises, requests, apiKey,
                   tasks, file, pkce, web>>

\* clearToken(): the manager forgets the cached token and the marker of the
\* refresh in progress; the refresh itself goes on.
CallClearToken(t) ==
    /\ tasks[t].pc = "idle"
    /\ currentToken' = None
    /\ refreshPromise' = 0
    /\ tasks' = [tasks EXCEPT ![t] = Finish([@ EXCEPT !.kind = "clear"], Ok(None))]
    /\ UNCHANGED <<now, credentials, promises, requests, apiKey, file, login, pkce, web>>

(* -------------------- QwenOpenAIContentGenerator ---------------------- *)

CallGenerateContent(t) == GetValidTokenStart(t, "wvt")

CallGenerateContentStream(t) == GetValidTokenStart(t, "stream")

\* The operation passed to withValidToken is invoked with a token: it saves the
\* client's apiKey, sets the token and awaits the request.
InvokeOperation(t, tok) ==
    /\ apiKey' = tok
    /\ tasks' = [tasks EXCEPT ![t].pc = "op",
                              ![t].ops = Append(@, tok),
                              ![t].savedKey = apiKey]

\* getTokenWithRetry() returned or threw: withValidToken invokes the operation,
\* generateContentStream starts the stream.
AfterToken(t) ==
    /\ tasks[t].pc = "gvt_ret"
    /\ IF tasks[t].cause # ""
       THEN /\ tasks' = [tasks EXCEPT ![t] =
                            Finish(@, Failed(Err("Failed to obtain valid Qwen access token", "")))]
            /\ UNCHANGED apiKey
       ELSE IF tasks[t].kind = "wvt"
       THEN InvokeOperation(t, tasks[t].token)
       ELSE /\ apiKey' = tasks[t].token
            /\ tasks' = [tasks EXCEPT ![t].pc = "stream_init",
                                      ![t].ops = Append(@, tasks[t].token),
                                      ![t].savedKey = apiKey]
    /\ UNCHANGED <<now, credentials, currentToken, refreshPromise, promises, requests, file, login, pkce, web>>

\* Whether withValidToken refreshes and retries after the operation threw error.
RetriesOn(error) == isAuthError(error)

\* How an invocation of the operation may settle: its result, or one of errs thrown.
Outcomes(errs) == {[ok |-> TRUE, err |-> NoError]} \cup [ok : {FALSE}, err : errs]

\* The first invocation of the operation settles: with its result, or with an
\* error that withValidToken's catch block handles.
OpSettleFirst(t, errs) ==
    /\ tasks[t].pc = "op"
    /\ Len(tasks[t].ops) = 1
    /\ apiKey' = tasks[t].savedKey
    /\ \E o \in Outcomes(errs) :
          IF o.ok
          THEN /\ tasks' = [tasks EXCEPT ![t] = Finish(@, Ok(Some(1)))]
               /\ UNCHANGED <<refreshPromise, promises, requests>>
          ELSE IF RetriesOn(o.err)
          THEN RefreshTokenStart(t, [tasks[t] EXCEPT !.opErrs = Append(@, o.err),
                                                    !.forced = @ + 1])
          ELSE /\ tasks' = [tasks EXCEPT ![t] =
                               Finish([@ EXCEPT !.opErrs = Append(@, o.err)], Failed(o.err))]
               /\ UNCHANGED <<refreshPromise, promises, requests>>
    /\ UNCHANGED <<now, credentials, currentToken, file, login, pkce, web>>

\* The retry is given the token the operation was first invoked with.
RetryTokenStale(tk) == tk.ops[1]

\* The token withValidToken passes to the retried operation: newToken, the
\* value refreshToken() returned.
RetryToken(tk) == tk.token

\* refreshToken() returned or threw inside withValidToken's catch block.
AfterRefresh(t) ==
    /\ tasks[t].pc = "rt_ret"
    /\ IF tasks[t].cause # ""
       THEN /\ tasks' = [tasks EXCEPT ![t] =
                            Finish(@, Failed(Err("Token refresh failed", tasks[t].cause)))]
            /\ UNCHANGED apiKey
       ELSE InvokeOperation(t, RetryToken(tasks[t]))
    /\ UNCHANGED <<now, credentials, currentToken, refreshPromise, promises, requests, file, login, pkce, web>>

\* The retried invocation settles, and an authentication error from it leads
\* to another forced refresh and another retry.
OpSettleRetryAgain(t, errs) ==
    /\ tasks[t].pc = "op"
    /\ Len(tasks[t].ops) = 2
    /\ apiKey' = tasks[t].savedKey
    /\ \E o \in Outcomes(errs) :
          IF o.ok
          THEN /\ tasks' = [tasks EXCEPT ![t] = Finish(@, Ok(Some(2)))]
               /\ UNCHANGED <<refreshPromise, promises, requests>>
          ELSE IF RetriesOn(o.err)
          THEN RefreshTokenStart(t, [tasks[t] EXCEPT !.opErrs = Append(@, o.err),
                                                    !.forced = @ + 1])
          ELSE /\ tasks' = [tasks EXCEPT ![t] =
                               Finish([@ EXCEPT !.opErrs = Append(@, o.err)], Failed(o.err))]
               /\ UNCHANGED <<refreshPromise, promises, requests>>
    /\ UNCHANGED <<now, credentials, currentToken, file, login, pkce, web>>

\* The retried invocation settles: its result or its error is the call's.
OpSettleRetry(t, errs) ==
    /\ tasks[t].pc = "op"
    /\ Len(tasks[t].ops) = 2
    /\ apiKey' = tasks[t].savedKey
    /\ \E o \in Outcomes(errs) :
          tasks' = [tasks EXCEPT ![t] =
                       IF o.ok THEN Finish(@, Ok(Some(2)))
                       ELSE Finish([@ EXCEPT !.opErrs = Append(@, o.err)], Failed(o.err))]
    /\ UNCHANGED <<now, credentials, currentToken, refreshPromise, promises, requests, file, login, pkce, web>>

\* super.generateContentStream() settles: the stream handle is returned with
\* the token left in place, or the key is restored and the error rethrown.
StreamSettle(t, errs) ==
    /\ tasks[t].pc = "stream_init"
    /\ \E o \in Outcomes(errs) :
          IF o.ok
          THEN /\ tasks' = [tasks EXCEPT ![t] = Finish(@, Ok(Some(1)))]
               /\ UNCHANGED apiKey
          ELSE /\ tasks' = [tasks EXCEPT ![t] =
                               Finish([@ EXCEPT !.opErrs = Append(@, o.err)], Failed(o.err))]
               /\ apiKey' = tasks[t].savedKey
    /\ UNCHANGED <<now, credentials, currentToken, refreshPromise, promises, requests, file, login, pkce, web>>

(* --------------------------- PKCE utilities ---------------------------- *)

\* The base64url alphabet: the character of each 6-bit value, from 0.
Base64UrlAlphabet ==
    <<"A", "B", "C", "D", "E", "F", "G", "H", "I", "J", "K", "L", "M",
      "N", "O", "P", "Q", "R", "S", "T", "U", "V", "W", "X", "Y", "Z",
      "a", "b", "c", "d", "e", "f", "g", "h", "i", "j", "k", "l", "m",
      "n", "o", "p", "q", "r", "s", "t", "u", "v", "w", "x", "y", "z",
      "0", "1", "2", "3", "4", "5", "6", "7", "8", "9", "-", "_">>

\* The base64 alphabet, which differs in the last two characters.
Base64Alphabet == SubSeq(Base64UrlAlphabet, 1, 62) \o <<"+", "/">>

\* The k-th 6-bit group of the bits of bytes, the last one filled with zeros.
Sextet(bytes, k) ==
    LET offset == 6 * (k - 1)
        i == (offset \div 8) + 1
        shift == offset % 8
        hi == bytes[i]
        lo == IF i < Len(bytes) THEN bytes[i + 1] ELSE 0
    IN ((hi * 256 + lo) \div (2 ^ (10 - shift))) % 64

\* The number of 6-bit groups that hold the bits of n bytes.
SextetCount(n) == (8 * n + 5) \div 6

\* Buffer.toString('base64'): padded with '=' to a multiple of four characters.
toBase64(bytes) ==
    LET n == SextetCount(Len(bytes))
    IN [k \in 1 .. 4 * ((n + 3) \div 4) |->
           IF k <= n THEN Base64Alphabet[Sextet(bytes, k) + 1] ELSE "="]

\* Buffer.toString('base64url'): no padding.
toBase64Url(bytes) ==
    [k \in 1 .. SextetCount(Len(bytes)) |-> Base64UrlAlphabet[Sextet(bytes, k) + 1]]

\* What crypto.randomBytes(VerifierBytes) may return: the bytes repeat a
\* pattern of PatternLen values, each one of NumByteValues values spread
\* over 0 .. 255.
SampleBytes == {(k * 255) \div (NumByteValues - 1) : k \in 0 .. NumByteValues - 1}

RandomBytes ==
    {[i \in 1 .. VerifierBytes |-> pat[((i - 1) % PatternLen) + 1]] :
        pat \in [1 .. PatternLen -> SampleBytes]}

\* The character code the digest reads for a character of the verifier.
CharCode(ch) == CHOOSE i \in 1 .. 64 : Base64UrlAlphabet[i] = ch

\* The character codes of msg[lo .. hi], each weighted by its position.
RECURSIVE WeightedSum(_, _, _)
WeightedSum(msg, lo, hi) ==
    IF lo > hi THEN 0
    ELSE IF lo = hi THEN CharCode(msg[lo]) * lo
    ELSE LET mid == (lo + hi) \div 2
         IN (WeightedSum(msg, lo, mid) + WeightedSum(msg, mid + 1, hi)) % 65521

\* crypto.createHash('sha256') fed msg, then digest(): DigestBytes bytes that
\* msg determines.  The bytes stand in for those of SHA-256; the model relies
\* on the digest being a function of what the hash object was fed and on
\* its length only.
sha256(msg) ==
    LET w == WeightedSum(msg, 1, Len(msg))
    IN [i \in 1 .. DigestBytes |-> (w * i + Len(msg) + i * i) % 256]

\* generateCodeVerifier() encoding the bytes as 'base64'.
generateCodeVerifierBase64(bytes) == toBase64(bytes)

\* generateCodeVerifier(), bytes being what crypto.randomBytes() returned.
generateCodeVerifier(bytes) == toBase64Url(bytes)

\* A hash object that outlives the call and is fed every verifier.
HashFedShared(fed, codeVerifier) == fed \o codeVerifier

\* What the hash object of generateCodeChallenge() has been fed when it is
\* digested, fed being what earlier calls hashed: createHash() makes a new
\* object in every call.
HashFed(fed, codeVerifier) == codeVerifier

generateCodeChallenge(fed, codeVerifier) == toBase64Url(sha256(HashFed(fed, codeVerifier)))

\* No PKCE utility called.  verifier: the code verifier generated;
\* pair: what generatePKCEPair() returned, if it generated the verifier;
\* challenges: what the generateCodeChallenge() calls made on the verifier
\* afterwards returned; fed: the verifiers hashed so far.
NoPKCE == [verifier |-> << >>, pair |-> None, challenges |-> << >>, fed |-> << >>]

\* generateCodeVerifier() is called.
CallGenerateCodeVerifier(bytes) ==
    /\ pkce.verifier = << >>
    /\ pkce' = [pkce EXCEPT !.verifier = generateCodeVerifier(bytes)]
    /\ UNCHANGED <<now, credentials, currentToken, refreshPromise, promises, requests, apiKey,
                   tasks, file, login, web>>

\* generatePKCEPair() is called.
CallGeneratePKCEPair(bytes) ==
    /\ pkce.verifier = << >>
    /\ LET codeVerifier == generateCodeVerifier(bytes)
           codeChallenge == generateCodeChallenge(pkce.fed, codeVerifier)
       IN pkce' = [pkce EXCEPT !.verifier = codeVerifier,
                               !.pair = Some([code_verifier |-> codeVerifier,
                                              code_challenge |-> codeChallenge]),
                               !.fed = @ \o codeVerifier]
    /\ UNCHANGED <<now, credentials, currentToken, refreshPromise, promises, requests, apiKey,
                   tasks, file, login, web>>

\* generateCodeChallenge() is called on the verifier generated before.
CallGenerateCodeChallenge ==
    /\ pkce.verifier # << >>
    /\ Len(pkce.challenges) < MaxChallengeCalls
    /\ pkce' = [pkce EXCEPT !.challenges = Append(@, generateCodeChallenge(pkce.fed, pkce.verifier)),
                            !.fed = @ \o pkce.verifier]
    /\ UNCHANGED <<now, credentials, currentToken, refreshPromise, promises, requests, apiKey,
                   tasks, file, login, web>>

(* --------------------------- specifications ---------------------------- *)

\* Credentials as the credentials file may hold them at start: the expiry
\* dates straddle the refresh buffer's threshold for the times the clock takes.
InitCredentials ==
    [access_token : {None, Some(0)},
     refresh_token : {None, Some(0)},
     expiry_date : {None, Some(0)}
                   \cup {Some(StartTime + TOKEN_REFRESH_BUFFER_MS + k) : k \in 0 .. MaxTicks + 1}]

\* The same with one expiry date on each side of the threshold at StartTime.
FewCredentials ==
    {c \in InitCredentials :
        c.expiry_date \in {None, Some(StartTime + TOKEN_REFRESH_BUFFER_MS),
                           Some(StartTime + TOKEN_REFRESH_BUFFER_MS + 1)}}

\* One answer of each kind the manager and the generator tell apart.
FewResponses ==
    {r \in RefreshResponses :
        \/ r.kind = "neterr"
        \/ r.kind = "http" /\ r.status = 401 /\ r.body = <<"error">>
        \/ r.kind = "wrapped" /\ r.expires_in = Some(DefaultExpiresIn)
        \/ r.kind = "flat" /\ r.has_token /\ r.expires_in = None}

(* ------------------ authWithQwenWeb, the callback server -------------- *)

\* No browser-redirect login.  listening: the callback server accepts
\* requests; login: how loginCompletePromise stands; handlers: for each
\* request received, the request, the await its handler is suspended at,
\* whether its response was ended before the token exchange, whether
\* client.getToken() was called for it and whether its tokens were set.
NoWeb == [listening |-> FALSE, login |-> "pending", handlers |-> << >>]

\* The requests that reach the callback server.  path: the path of the URL;
\* mentions: the query string contains the text '/oauth2callback'; error,
\* state, code: the query parameters of these names.
WebRequests ==
    [path : {"/oauth2callback", "/favicon.ico"},
     mentions : BOOLEAN,
     error : {"absent", "empty", "access_denied"},
     state : {"absent", "generated", "other"},
     code : BOOLEAN]

\* req.url.indexOf('/oauth2callback') !== -1, a search in the whole URL.
HasCallbackText(req) == req.path = "/oauth2callback" \/ req.mentions

\* Whether qs.get('error') is truthy: the parameter is there and not empty.
HasError(req) == req.error = "access_denied"

\* The branch the handler takes after the test of the path.
Branch(req) ==
    IF HasError(req) THEN "error"
    ELSE IF req.state # "generated" THEN "state"
    ELSE IF req.code THEN "code"
    ELSE "nocode"

\* resolve() or reject() on a promise: only the first call settles it.
SettleLogin(lg, outcome) == IF lg = "pending" THEN outcome ELSE lg

\* The tokens client.getToken() returned to handler i.
WebTokens(i) == [access_token |-> Some(i), refresh_token |-> Some(i), expiry_date |-> None]

\* authWithQwenWeb() is called: the callback server listens.
StartWebLogin ==
    /\ web = NoWeb
    /\ web' = [web EXCEPT !.listening = TRUE]
    /\ UNCHANGED <<now, credentials, currentToken, refreshPromise, promises, requests, apiKey,
                   tasks, file, login, pkce>>

\* The callback server receives req: the handler runs to its end, where it
\* closes the server, or to its await of client.getToken().  A URL without
\* the text '/oauth2callback' is answered and rejects the login, and the
\* handler goes on to read the query.
WebRequest(req) ==
    /\ web.listening
    /\ Len(web.handlers) < MaxWebRequests
    /\ LET wrong == ~HasCallbackText(req)
           lg == IF wrong THEN SettleLogin(web.login, "rejected") ELSE web.login
       IN web' = IF Branch(req) = "code"
                 THEN [web EXCEPT !.login = lg,
                                  !.handlers = Append(@, [req |-> req, pc |-> "exchange_wait",
                                                          ended |-> wrong, exchange |-> TRUE,
                                                          stored |-> FALSE])]
                 ELSE [web EXCEPT !.login = SettleLogin(lg, "rejected"),
                                  !.listening = FALSE,
                                  !.handlers = Append(@, [req |-> req, pc |-> "done",
                                                          ended |-> TRUE, exchange |-> FALSE,
                                                          stored |-> FALSE])]
    /\ UNCHANGED <<now, credentials, currentToken, refreshPromise, promises, requests, apiKey,
                   tasks, file, login, pkce>>

\* How the token exchange of a handler may end: tokens that are set and
\* cached; an exchange that client.getToken() refuses; tokens that are set
\* and whose caching in tokenUpdateCallback fails.
ExchangeOutcomes == {"tokens", "refused", "save_failed"}

\* client.getToken() of handler i settles.  With tokens the handler sets the
\* credentials, caches them and writes its response, which throws when the
\* response was ended before; otherwise it rejects the login.  It closes the
\* server.
ExchangeAnswered(i, outcome) ==
    /\ i \in 1 .. Len(web.handlers)
    /\ web.handlers[i].pc = "exchange_wait"
    /\ credentials' = IF outcome = "refused" THEN credentials ELSE WebTokens(i)
    /\ web' = [web EXCEPT !.login = SettleLogin(@, IF outcome = "tokens" /\ ~web.handlers[i].ended
                                                    THEN "resolved" ELSE "rejected"),
                          !.listening = FALSE,
                          !.handlers[i].pc = "done",
                          !.handlers[i].ended = TRUE,
                          !.handlers[i].stored = (outcome # "refused")]
    /\ UNCHANGED <<now, currentToken, refreshPromise, promises, requests, apiKey,
                   tasks, file, login, pkce>>

InitWith(creds) ==
    /\ now = StartTime
    /\ credentials \in creds
    /\ currentToken = None
    /\ refreshPromise = 0
    /\ promises = << >>
    /\ requests = << >>
    /\ apiKey = None
    /\ tasks = [t \in Tasks |-> IdleTask]
    /\ file = Some(credentials)
    /\ login = IdleLogin
    /\ pkce = NoPKCE
    /\ web = NoWeb

\* Concurrent getValidToken() and refreshToken() calls on one manager.
Init == InitWith(FewCredentials)

Next ==
    \/ \E t \in Tasks : CallGetValidToken(t)
    \/ \E t \in Tasks : CallRefreshToken(t)
    \/ \E t \in Tasks : AccessResolved(t)
    \/ \E t \in Tasks : AttachedResume(t)
    \/ \E p \in 1 .. Len(promises) : ImmediateReject(p)
    \/ \E c \in InFlight(requests), resp \in FewResponses : ServerRespond(c, resp)

Spec == Init /\ [][Next]_vars

\* One wrapped call of the content generator.
SampleErrors ==
    RetryErrors \cup
    {[msg |-> <<"timeout">>, status |-> Undefined, code |-> Num(403)],
     [msg |-> <<"authentication", "timeout">>, status |-> Undefined, code |-> Undefined],
     [msg |-> <<"Token", "timeout">>, status |-> Undefined, code |-> Undefined]}

NextWrapper ==
    \/ CallGenerateContent(1)
    \/ CallGenerateContentStream(1)
    \/ AccessResolved(1)
    \/ AfterToken(1)
    \/ OpSettleFirst(1, SampleErrors)
    \/ AfterRefresh(1)
    \/ OpSettleRetry(1, RetryErrors)
    \/ StreamSettle(1, SampleErrors)
    \/ \E p \in 1 .. Len(promises) : ImmediateReject(p)
    \/ \E c \in InFlight(requests), resp \in FewResponses : ServerRespond(c, resp)

SpecWrapper == InitWith(FewCredentials) /\ [][NextWrapper]_vars

\* One generateContent() call whose operation may throw any error.
ValidCredentials ==
    {c \in InitCredentials :
        /\ c.access_token = Some(0)
        /\ c.expiry_date = Some(StartTime + TOKEN_REFRESH_BUFFER_MS + 1)}

NextAuthError ==
    \/ CallGenerateContent(1)
    \/ AccessResolved(1)
    \/ AfterToken(1)
    \/ OpSettleFirst(1, Errors)
    \/ AfterRefresh(1)
    \/ OpSettleRetry(1, RetryErrors)
    \/ \E p \in 1 .. Len(promises) : ImmediateReject(p)
    \/ \E c \in InFlight(requests), resp \in FewResponses : ServerRespond(c, resp)

SpecAuthError == InitWith(ValidCredentials) /\ [][NextAuthError]_vars

\* getAccessToken() calls on the client while time passes.
\* The answers getAccessToken() tells apart: a failure of each kind, and each
\* 2xx shape with and without an access token, with and without expires_in.
ClientResponses ==
    {r \in RefreshResponses :
        \/ r.kind = "neterr"
        \/ r.kind = "http" /\ r.status = 401 /\ r.body = <<"error">>
        \/ r.kind = "wrapped" /\ r.expires_in # Some(300)
        \/ r.kind = "flat" /\ ~r.rotates /\ r.expires_in # Some(300)}

NextClient ==
    \/ \E t \in Tasks : CallGetAccessToken(t)
    \/ \E c \in InFlight(requests), resp \in ClientResponses : ServerRespond(c, resp)
    \/ Tick

SpecClient == InitWith(FewCredentials) /\ [][NextClient]_vars

\* refreshToken() calls on one manager, the token endpoint answering with a
\* failure of any kind or with an access token in either shape.
FailuresAndTokens ==
    {r \in RefreshResponses :
        \/ r.kind \in {"neterr", "http"}
        \/ r.kind = "wrapped" /\ r.has_token /\ r.expires_in = Some(DefaultExpiresIn)
        \/ r.kind = "flat" /\ r.has_token /\ r.expires_in = None}

NextRefresh ==
    \/ \E t \in Tasks : CallRefreshToken(t)
    \/ \E p \in 1 .. Len(promises) : ImmediateReject(p)
    \/ \E c \in InFlight(requests), resp \in FailuresAndTokens : ServerRespond(c, resp)

SpecRefresh == InitWith(FewCredentials) /\ [][NextRefresh]_vars

\* Calls on one manager, started in the order of their numbers, the client
\* holding an access token that is fresh or due for refresh, with or without
\* a refresh token; the token endpoint refuses, or answers in the wrapped
\* shape with or without an access token.
ManagerCredentials ==
    {c \in FewCredentials : c.access_token = Some(0) /\ c.expiry_date # None}

ManagerResponses ==
    {r \in FewResponses : r.kind \in {"http", "wrapped"}}

Started(t) == \A u \in Tasks : u < t => tasks[u].pc # "idle"

\* The continuations the event loop runs once their promise has settled.
Resume ==
    \/ \E t \in Tasks : AccessResolved(t)
    \/ \E t \in Tasks : AttachedResume(t)
    \/ \E p \in 1 .. Len(promises) : ImmediateReject(p)

\* The token endpoint answers a request in flight.
Answer == \E c \in InFlight(requests), resp \in ManagerResponses : ServerRespond(c, resp)

NextManager ==
    \/ \E t \in Tasks : Started(t) /\ CallGetValidToken(t)
    \/ \E t \in Tasks : Started(t) /\ CallRefreshToken(t)
    \/ Resume
    \/ Answer

SpecManager == InitWith(ManagerCredentials) /\ [][NextManager]_vars

\* The same with every continuation run and every request answered at last.
SpecManagerFair == SpecManager /\ WF_vars(Resume) /\ WF_vars(Answer)

\* Concurrent generateContent(), countTokens() and embedContent() calls on one
\* generator, started in the order of their numbers.
NextGenerator ==
    \/ \E t \in Tasks : Started(t) /\ CallGenerateContent(t)
    \/ \E t \in Tasks : AccessResolved(t)
    \/ \E t \in Tasks : AttachedResume(t)
    \/ \E t \in Tasks : AfterToken(t)
    \/ \E t \in Tasks : OpSettleFirst(t, RetryErrors)
    \/ \E t \in Tasks : AfterRefresh(t)
    \/ \E t \in Tasks : OpSettleRetry(t, RetryErrors)
    \/ \E p \in 1 .. Len(promises) : ImmediateReject(p)
    \/ Answer

SpecGenerator == InitWith(ManagerCredentials) /\ [][NextGenerator]_vars

\* The calls on one manager and clearToken() among them.
NextClear ==
    \/ NextManager
    \/ \E t \in Tasks : Started(t) /\ CallClearToken(t)

SpecClear == InitWith(ManagerCredentials) /\ [][NextClear]_vars

\* The browser-redirect login and the requests its callback server receives.
InitWeb ==
    /\ now = StartTime
    /\ credentials = EmptyCredentials
    /\ currentToken = None
    /\ refreshPromise = 0
    /\ promises = << >>
    /\ requests = << >>
    /\ apiKey = None
    /\ tasks = [t \in Tasks |-> IdleTask]
    /\ file = None
    /\ login = IdleLogin
    /\ pkce = NoPKCE
    /\ web = NoWeb

NextWeb ==
    \/ StartWebLogin
    \/ \E req \in WebRequests : WebRequest(req)
    \/ \E i \in 1 .. Len(web.handlers), outcome \in ExchangeOutcomes : ExchangeAnswered(i, outcome)

SpecWeb == InitWeb /\ [][NextWeb]_vars

\* Calls of the PKCE utilities.
NextPKCE ==
    \/ \E bytes \in RandomBytes : CallGenerateCodeVerifier(bytes)
    \/ \E bytes \in RandomBytes : CallGeneratePKCEPair(bytes)
    \/ CallGenerateCodeChallenge

SpecPKCE == InitWith({EmptyCredentials}) /\ [][NextPKCE]_vars

\* One run of getQwenOAuthClient() on a new client, the credentials file
\* missing or holding any of the credentials above.
InitLogin ==
    /\ now = StartTime
    /\ credentials = EmptyCredentials
    /\ currentToken = None
    /\ refreshPromise = 0
    /\ promises = << >>
    /\ requests = << >>
    /\ apiKey = None
    /\ tasks = [t \in Tasks |-> IdleTask]
    /\ file \in {None} \cup {Some(c) : c \in FewCredentials}
    /\ login = IdleLogin
    /\ pkce = NoPKCE
    /\ web = NoWeb

NextLogin ==
    \/ \E fault \in LoadFaults : StartLogin(fault)
    \/ \E resp \in ClientResponses : LoadRefreshAnswered(resp)
    \/ \E resp \in DeviceAuthResponses : DeviceAuthAnswered(resp)
    \/ \E resp \in PollResponses : PollAnswered(resp)
    \/ WriteDone
    \/ FlowReturned
    \/ Tick

SpecLogin == InitLogin /\ [][NextLogin]_vars

\* The same with the user cancelling the authentication.
NextCancel ==
    \/ NextLogin
    \/ CancelQwenAuth

SpecCancel == InitLogin /\ [][NextCancel]_vars

\* The login with the launch of the browser suppressed or not.
InitBrowser ==
    /\ now = StartTime
    /\ credentials = EmptyCredentials
    /\ currentToken = None
    /\ refreshPromise = 0
    /\ promises = << >>
    /\ requests = << >>
    /\ apiKey = None
    /\ tasks = [t \in Tasks |-> IdleTask]
    /\ file \in {None} \cup {Some(c) : c \in FewCredentials}
    /\ login \in {[IdleLogin EXCEPT !.suppressed = b] : b \in BOOLEAN}
    /\ pkce = NoPKCE
    /\ web = NoWeb

NextBrowser ==
    \/ NextLogin
    \/ \E outcome \in LaunchOutcomes : BrowserSettled(outcome)

SpecBrowser == InitBrowser /\ [][NextBrowser]_vars

\* The login with the steps of fs.writeFile() apart, the write failing or
\* not, and other processes loading the credentials file meanwhile.
NextFile ==
    \/ \E fault \in LoadFaults : StartLogin(fault)
    \/ \E resp \in ClientResponses : LoadRefreshAnswered(resp)
    \/ \E resp \in DeviceAuthResponses : DeviceAuthAnswered(resp)
    \/ \E resp \in PollResponses : PollAnswered(resp)
    \/ WriteOpened
    \/ WriteCompleted
    \/ WriteFailed
    \/ FlowReturned
    \/ \E t \in Tasks : Started(t) /\ OtherProcessLoads(t)

SpecFile == InitLogin /\ [][NextFile]_vars

\* The same with every awaited call settling at last.
SpecLoginFair == SpecLogin /\ WF_vars(NextLogin)

(* ------------------------------ claims --------------------------------- *)

\* Call b started while a refresh request sent by call a was in flight.
StartedDuring(b, a) == \E c \in tasks[b].overlap : requests[c].task = a

\* C1: getValidToken() calls that overlap while a refresh is pending all
\* resolve to the same token, and together they send exactly one refresh
\* request to the authorization server.
C1_OverlappingGetValidTokenShareOneRefresh ==
    \A a, b \in Tasks :
        (a # b /\ tasks[a].kind = "gvt" /\ tasks[b].kind = "gvt" /\ StartedDuring(b, a))
        => /\ Cardinality(RequestsOf(a) \cup RequestsOf(b)) = 1
           /\ (Done(a) /\ Done(b) => tasks[a].res = tasks[b].res)

\* C2: a refreshToken() call made while an earlier call's refresh is
\* outstanding sends no request of its own and resolves as that refresh does.
C2_RefreshTokenAttachesToPending ==
    \A a, b \in Tasks :
        (a # b /\ tasks[b].kind = "rt" /\ StartedDuring(b, a))
        => /\ RequestsOf(b) = {}
           /\ (Done(a) /\ Done(b) => tasks[a].res = tasks[b].res)

\* C3: at most one refresh request of a manager is in flight at any time.
C3_AtMostOneRefreshInFlight == Cardinality(InFlight(requests)) <= 1

\* The promises and the requests of the forced refreshes (refreshToken()
\* calls) that wrapper call t made.
ForcedPromises(t) ==
    {p \in 1 .. Len(promises) : promises[p].creator = t /\ promises[p].via = "refreshToken"}

ForcedRequests(t) ==
    {c \in 1 .. Len(requests) : requests[c].promise \in ForcedPromises(t)}

\* The words of a message, lower-cased, and whether a phrase occurs in them.
Says(e, phrase) ==
    \E i \in 1 .. Len(e.msg) :
        /\ i + Len(phrase) - 1 <= Len(e.msg)
        /\ \A j \in 1 .. Len(phrase) : LowerWord(e.msg[i + j - 1]) = phrase[j]

AuthCodes == {Num(401), Num(403)}

\* Authentication-class as the claims list it: status or code 401 or 403, or
\* one of the listed phrases in the message.
ListedAuthClass(e) ==
    \/ e.status \in AuthCodes
    \/ e.code \in AuthCodes
    \/ Says(e, <<"unauthorized">>)
    \/ Says(e, <<"forbidden">>)
    \/ Says(e, <<"invalid", "api", "key">>)
    \/ Says(e, <<"access", "denied">>)
    \/ (Says(e, <<"token">>) /\ Says(e, <<"expired">>))

\* Authentication-class with the status taking precedence over the code and
\* with the message test on 'authentication'.
AuthClass(e) ==
    \/ (IF e.status \in {Undefined, Num(0)} THEN e.code ELSE e.status) \in AuthCodes
    \/ Says(e, <<"unauthorized">>)
    \/ Says(e, <<"forbidden">>)
    \/ Says(e, <<"invalid", "api", "key">>)
    \/ Says(e, <<"authentication">>)
    \/ Says(e, <<"access", "denied">>)
    \/ (Says(e, <<"token">>) /\ Says(e, <<"expired">>))

\* C4: when the operation fails first with an authentication-class error and
\* succeeds when retried, withValidToken succeeds with the retry's result, the
\* operation has been invoked exactly twice, the second time with the token
\* the forced refresh obtained, and exactly one forced refresh has occurred.
C4_RetrySucceedsAfterOneForcedRefresh ==
    \A t \in Tasks :
        (/\ tasks[t].kind = "wvt"
         /\ Done(t)
         /\ Len(tasks[t].opErrs) = 1
         /\ AuthClass(tasks[t].opErrs[1])
         /\ Len(tasks[t].ops) >= 2)
        => /\ tasks[t].res = Ok(Some(2))
           /\ Len(tasks[t].ops) = 2
           /\ tasks[t].forced = 1
           /\ Cardinality(ForcedPromises(t)) = 1
           /\ Cardinality(ForcedRequests(t)) = 1
           /\ \A c \in ForcedRequests(t) : tasks[t].ops[2] = Some(c)
           /\ \A p \in ForcedPromises(t) : tasks[t].ops[2] = promises[p].tok

C4_Witness ==
    \E t \in Tasks :
        /\ tasks[t].kind = "wvt"
        /\ Done(t)
        /\ Len(tasks[t].opErrs) = 1
        /\ tasks[t].opErrs[1].status = Num(401)
        /\ Len(tasks[t].ops) = 2
        /\ tasks[t].res.st = "ok"

\* C5: when the operation fails on the first invocation and again on the
\* retry, withValidToken fails with the second error itself; the operation is
\* never invoked more than twice and never more than one forced refresh occurs.
C5_SecondFailurePropagates ==
    \A t \in Tasks :
        /\ Len(tasks[t].ops) <= 2
        /\ tasks[t].forced <= 1
        /\ Cardinality(ForcedRequests(t)) <= 1
        /\ (tasks[t].kind = "wvt" /\ Len(tasks[t].opErrs) = 2)
           => /\ Done(t)
              /\ tasks[t].res = Failed(tasks[t].opErrs[2])
              /\ Len(tasks[t].ops) = 2
              /\ tasks[t].forced = 1
              /\ Cardinality(ForcedRequests(t)) = 1

C5_Witness ==
    \E t \in Tasks :
        /\ tasks[t].kind = "wvt"
        /\ Done(t)
        /\ Len(tasks[t].opErrs) = 2
        /\ tasks[t].opErrs[1].status = Num(401)
        /\ tasks[t].opErrs[2].status = Num(401)
        /\ tasks[t].res.st = "err"

\* What withValidToken did after the operation's first failure e: refreshed
\* and (the refresh succeeding) retried once, or invoked the operation once,
\* refreshed nothing and let e propagate.
RefreshedAndRetried(t) ==
    /\ tasks[t].forced = 1
    /\ Cardinality(ForcedPromises(t)) = 1
    /\ \A p \in ForcedPromises(t) :
          /\ (Done(t) /\ promises[p].st = "fulfilled") => Len(tasks[t].ops) = 2
          /\ promises[p].st = "rejected" => Len(tasks[t].ops) = 1

Propagated(t) ==
    /\ tasks[t].forced = 0
    /\ ForcedPromises(t) = {}
    /\ Done(t)
    /\ Len(tasks[t].ops) = 1
    /\ tasks[t].res = Failed(tasks[t].opErrs[1])

\* C6 as stated: withValidToken refreshes and retries exactly when the first
\* failure has status or code 401 or 403 or a message with 'unauthorized',
\* 'forbidden', 'invalid api key', 'access denied', or 'token' and 'expired'.
C6_RetryIffListedAuthClass ==
    \A t \in Tasks :
        (tasks[t].kind = "wvt" /\ Len(tasks[t].opErrs) >= 1)
        => IF ListedAuthClass(tasks[t].opErrs[1])
           THEN RefreshedAndRetried(t)
           ELSE Propagated(t)

\* C6 amended: withValidToken performs the forced refresh (and, when that
\* refresh succeeds, the single retry) exactly when the first failure's
\* status, or its code when the status is absent or falsy, is the number 401
\* or 403, or its message contains, in any case, 'unauthorized', 'forbidden',
\* 'invalid api key', 'authentication', 'access denied', or both 'token' and
\* 'expired'; for every other failure the operation is invoked once, no
\* forced refresh occurs and the error propagates.
C6_RetryIffAuthClass ==
    \A t \in Tasks :
        (tasks[t].kind = "wvt" /\ Len(tasks[t].opErrs) >= 1)
        => IF AuthClass(tasks[t].opErrs[1])
           THEN RefreshedAndRetried(t)
           ELSE Propagated(t)

C6_Witness ==
    \E t \in Tasks :
        /\ tasks[t].kind = "wvt"
        /\ Done(t)
        /\ Len(tasks[t].ops) = 2
        /\ tasks[t].opErrs[1].msg = <<"authentication", "timeout">>
        /\ tasks[t].opErrs[1].status = Undefined

\* C7: when starting the stream fails with an authentication-class error,
\* generateContentStream performs one forced refresh (and retries the start).
C7_StreamStartRetriesOnAuthError ==
    \A t \in Tasks :
        (/\ tasks[t].kind = "stream"
         /\ Done(t)
         /\ Len(tasks[t].opErrs) >= 1
         /\ AuthClass(tasks[t].opErrs[1]))
        => tasks[t].forced = 1

\* The stored access token is present, has an expiry date and the clock is
\* more than 300000 ms before that date.
FreshAt(creds, t) ==
    /\ Present(creds.access_token)
    /\ Present(creds.expiry_date)
    /\ t < creds.expiry_date[1] - 300000

FreshAtStart(t) == FreshAt(tasks[t].snap[1].creds, tasks[t].snap[1].now)

\* C8: getAccessToken() returns the stored access token without a refresh
\* request exactly when the token is present with an expiry date and
\* now < expiry_date - 300000; otherwise (at the threshold, past it, or with
\* no expiry date) the refresh path is taken: a stored refresh token is used
\* for a refresh request.
C8_CachedIffBeforeRefreshBuffer ==
    \A t \in Tasks :
        tasks[t].kind = "gat"
        => /\ FreshAtStart(t)
              <=> /\ Done(t)
                  /\ RequestsOf(t) = {}
                  /\ Present(tasks[t].res.val)
                  /\ tasks[t].res = Ok(tasks[t].snap[1].creds.access_token)
           /\ (~FreshAtStart(t) /\ Present(tasks[t].snap[1].creds.refresh_token))
              => Cardinality(RequestsOf(t)) = 1

C8_Witness ==
    \E t \in Tasks :
        /\ tasks[t].kind = "gat"
        /\ tasks[t].snap[1].creds.access_token = Some(0)
        /\ tasks[t].snap[1].creds.expiry_date = Some(tasks[t].snap[1].now + 300000)
        /\ tasks[t].snap[1].now > StartTime
        /\ RequestsOf(t) # {}

\* C9: with a refresh token stored and the access token absent or expired,
\* getAccessToken() either fails because the refresh failed or returns the
\* refreshed token; it never returns an undefined token after a refresh
\* request the server answered with success, flat or wrapped.
C9_RefreshedTokenOrFailure ==
    \A t \in Tasks :
        (/\ tasks[t].kind = "gat"
         /\ Done(t)
         /\ ~FreshAtStart(t)
         /\ Present(tasks[t].snap[1].creds.refresh_token))
        => \/ /\ tasks[t].res.st = "err"
              /\ \A c \in RequestsOf(t) : ~RefreshOk(requests[c].answer[1])
           \/ \E c \in RequestsOf(t) : tasks[t].res = Ok(Some(c))

\* C10: getAccessToken() on a client with no fresh access token and no refresh
\* token returns an undefined token at once: it does not throw, sends no
\* request and leaves the stored credentials as they are.
C10_NoTokenNoRefreshTokenGivesUndefined ==
    [][\A t \in Tasks :
          (/\ tasks[t].pc = "idle"
           /\ tasks'[t].kind = "gat"
           /\ ~FreshAt(credentials, now)
           /\ ~Present(credentials.refresh_token))
          => /\ tasks'[t].pc = "done"
             /\ tasks'[t].res = Ok(None)
             /\ requests' = requests
             /\ credentials' = credentials]_vars

C10_Witness ==
    \E t \in Tasks :
        /\ tasks[t].kind = "gat"
        /\ Done(t)
        /\ tasks[t].snap[1].creds.access_token = Some(0)
        /\ tasks[t].snap[1].creds.refresh_token = None
        /\ ~FreshAtStart(t)
        /\ tasks[t].res = Ok(None)
        /\ RequestsOf(t) = {}

\* The refresh requests answered with success and an access token.
RefreshedOk == {c \in 1 .. Len(requests) :
                   /\ requests[c].st = "answered"
                   /\ RefreshOk(requests[c].answer[1])
                   /\ requests[c].answer[1].has_token}

AnsweredOk == {c \in 1 .. Len(requests) :
                  requests[c].st = "answered" /\ RefreshOk(requests[c].answer[1])}

\* expires_in of an answer, 3600 when the answer omits it.
ExpiresInOr3600(a) == IF Present(a.expires_in) THEN a.expires_in[1] ELSE 3600

\* C11: after a successful refreshAccessToken(), flat or wrapped, the stored
\* credentials have expiry_date set to the time of the refresh plus
\* expires_in seconds, expires_in being 3600 when the server omits it.
C11_ExpiryDateSetAfterRefresh ==
    (RefreshedOk # {} /\ AnsweredOk = RefreshedOk)
    => \E c \in RefreshedOk, t \in StartTime .. now :
          credentials.expiry_date = Some(t + ExpiresInOr3600(requests[c].answer[1]) * 1000)

\* The running or the last device flow has obtained a token.
FlowSucceeded ==
    \/ login.pc = "write_wait"
    \/ (login.results # << >> /\ login.results[Len(login.results)])

HasExpiryIfToken(creds) == Present(creds.access_token) => Present(creds.expiry_date)

\* C12: credentials that the device flow sets on the client or writes to the
\* credentials file and that hold an access_token also hold an expiry_date,
\* also when the poll's answer omits expires_in.
C12_AccessTokenHasExpiryDate ==
    /\ FlowSucceeded => HasExpiryIfToken(credentials)
    /\ (login.writes >= 1 /\ file # None) => HasExpiryIfToken(file[1])

\* C13: every mutation of the credentials is persisted: once a refresh
\* (through getValidToken() or refreshToken()) has succeeded, the credentials
\* file holds the credentials the client holds in memory.
C13_RefreshedCredentialsPersisted ==
    RefreshedOk # {} => file = Some(credentials)

\* The refresh requests the server answered with HTTP 401.
Rejected401 == {c \in 1 .. Len(requests) :
                   /\ requests[c].st = "answered"
                   /\ requests[c].answer[1].kind = "http"
                   /\ requests[c].answer[1].status = 401}

\* C14: once a refresh request has been answered with HTTP 401 (no refresh
\* having succeeded), the tokens held at the start, which the server
\* rejected, are cleared from the client's credentials and from the
\* manager's cached token.
C14_CredentialsClearedOn401 ==
    (Rejected401 # {} /\ AnsweredOk = {})
    => /\ credentials.access_token # Some(0)
       /\ credentials.refresh_token # Some(0)
       /\ currentToken # Some(0)

\* The flow has been answered 'pending' some times and then 'success' with
\* an access token.
PendingThenSuccess ==
    /\ login.answers # << >>
    /\ \A i \in 1 .. Len(login.answers) - 1 : login.answers[i].kind = "pending"
    /\ login.answers[Len(login.answers)].kind = "success"
    /\ login.answers[Len(login.answers)].has_token

LastResult == login.results[Len(login.results)]

FlowEnded == login.pc \in {"flow_done", "returned", "exited"}

AllPending == \A i \in 1 .. Len(login.answers) : login.answers[i].kind = "pending"

\* C16: a flow never calls pollDeviceToken more than ceil(expires_in / 5)
\* times, whatever the answers; with every poll answered 'pending' it makes
\* exactly ceil(expires_in / 5) polls and then returns false.
C16_PollsCappedByExpiresIn ==
    /\ login.flowPolls > 0 => (login.flowPolls - 1) * 5 < login.expiresIn[1]
    /\ Len(login.answers) <= login.flowPolls
    /\ (login.expiresIn # None /\ AllPending /\ FlowEnded)
       => /\ ~LastResult
          /\ login.flowPolls = Len(login.answers)
          /\ login.flowPolls * 5 >= login.expiresIn[1]
          /\ (login.flowPolls - 1) * 5 < login.expiresIn[1] \/ login.flowPolls = 0

C16_Witness ==
    /\ login.expiresIn = Some(10)
    /\ AllPending
    /\ login.pc = "flow_done"
    /\ login.flowPolls = 2

\* A poll answered with HTTP 401.
Is401(resp) == resp.kind = "http" /\ resp.status = 401

\* The access token the client holds was issued by the device flow.
HoldsDeviceToken == Present(credentials.access_token) /\ credentials.access_token[1] < 0

C18_OtherPollErrorsKeepPolling ==
    \A i \in 1 .. Len(login.answers) :
        (/\ PollFailed(login.answers[i])
         /\ ~Is401(login.answers[i])
         /\ i < login.maxAttempts)
        => login.flowPolls > i

\* What getQwenOAuthClient() has done so far is within two device flows.
AtMostTwoFlows ==
    /\ login.flows <= 2
    /\ login.authCalls <= 2
    /\ Len(login.results) <= login.flows
    /\ login.flows = 2 => (login.results # << >> /\ ~login.results[1])
    /\ login.results = <<FALSE, FALSE>> => login.pc \in {"flow_done", "exited"}
    /\ login.pc = "exited" => login.results = <<FALSE, FALSE>>
    /\ login.pc = "returned" => (login.flows = 0 \/ LastResult)

LoginEnded == login.pc \in {"returned", "exited"}

\* C19: getQwenOAuthClient() runs the device flow at most twice: the second
\* flow starts only after the first returned false, there is no third, and
\* after two failed flows the process exits and no client is returned; every
\* awaited call settling, getQwenOAuthClient() ends.
C19_AtMostTwoFlowsThenExit == []AtMostTwoFlows /\ <>LoginEnded

C19_Witness == login.pc = "exited" /\ login.flows = 2 /\ login.authCalls = 2

\* C20: when the credentials file loads and getAccessToken() on what it held
\* yields a token, getQwenOAuthClient() returns the client having called
\* neither requestDeviceAuthorization nor pollDeviceToken; the device flow
\* starts only when that check has yielded no token.
C20_CachedTokenSkipsDeviceFlow ==
    login.pc \notin {"idle", "load_wait"}
    => IF Present(login.loadToken)
       THEN /\ login.pc = "returned"
            /\ login.flows = 0
            /\ login.authCalls = 0
            /\ login.pollCalls = 0
            /\ file # None
            /\ credentials.access_token = login.loadToken
            /\ login.loadToken \in {file[1].access_token, Some(login.refreshCalls)}
       ELSE /\ login.flows >= 1
            /\ login.authCalls >= 1

C20_Witness ==
    /\ login.pc = "returned"
    /\ Present(login.loadToken)
    /\ login.refreshCalls = 0
    /\ login.authCalls = 0

\* cancelQwenAuth() was called during a device flow of this login.
Cancelled == Present(login.cancel)

\* C21: once cancelQwenAuth() was called on a device flow in progress, the
\* polling loop stops: no further pollDeviceToken() call is made, and no
\* credentials are set on the client or written to the credentials file.
C21_CancelStopsPolling ==
    Cancelled =>
        /\ login.pollCalls = login.cancel[1].polls
        /\ login.writes = login.cancel[1].writes
        /\ login.pc # "write_wait"

\* loadCachedQwenCredentials() caught a failure to read or parse the file.
LoadFailed == login.loadFault \in LoadFaults

\* C22: a credentials file that is missing, unreadable or not JSON never
\* fails the login: loadCachedQwenCredentials() returns false without
\* throwing and getQwenOAuthClient() goes on to the device flow.
C22_LoadFaultStartsDeviceFlow ==
    LoadFailed =>
        /\ login.pc # "threw"
        /\ login.loadToken = None
        /\ login.flows >= 1
        /\ login.authCalls >= 1

C22_Witness ==
    /\ login.loadFault = "SyntaxError"
    /\ login.pc = "auth_wait"
    /\ login.flows = 1

\* The refreshAccessToken() call behind promise p found no refresh token on
\* the client when it was made.
CalledWithoutRefreshToken(p) ==
    ~Present(tasks[promises[p].creator].snap[1].creds.refresh_token)

\* Request c was answered with a status that is not 2xx.
AnsweredNon2xx(c) ==
    /\ requests[c].st = "answered"
    /\ requests[c].answer[1].kind = "http"

\* C23: refreshAccessToken() reports each failure cause as a distinct error
\* and sends a request only when it can: called with no stored refresh token
\* it fails with the no-refresh-token error and no request is sent; a 401
\* answer fails with the re-authenticate error; any other non-2xx answer
\* fails with the generic error, whose message carries the status and the
\* response body.
C23_RefreshFailuresDistinct ==
    /\ \A p \in 1 .. Len(promises) :
          IF CalledWithoutRefreshToken(p)
          THEN /\ \A c \in 1 .. Len(requests) : requests[c].promise # p
               /\ promises[p].st # "pending" =>
                      /\ promises[p].st = "rejected"
                      /\ promises[p].cause = "NoRefreshToken"
          ELSE \E c \in 1 .. Len(requests) : requests[c].promise = p
    /\ \A c \in 1 .. Len(requests) :
          AnsweredNon2xx(c) =>
              LET a == requests[c].answer[1]
                  e == requests[c].error
                  pr == promises[requests[c].promise]
              IN /\ e # NoRefreshTokenMessage
                 /\ pr.st = "rejected"
                 /\ IF a.status = 401
                    THEN /\ includes(e, <<"re-authenticate">>)
                         /\ ~includes(e, <<"failed">>)
                         /\ pr.cause = "RefreshExpired"
                    ELSE /\ includes(e, <<"failed", StatusText(a.status)>>)
                         /\ includes(e, <<"Response">> \o a.body)
                         /\ ~includes(e, <<"re-authenticate">>)
                         /\ pr.cause = "TokenRefreshError"

C23_Witness ==
    \E c, d \in 1 .. Len(requests) :
        /\ AnsweredNon2xx(c)
        /\ requests[c].answer[1].status = 401
        /\ AnsweredNon2xx(d)
        /\ requests[d].answer[1].status = 500
        /\ requests[d].answer[1].body = <<"invalid", "grant">>
        /\ promises[requests[d].promise].cause = "TokenRefreshError"

\* requestDeviceAuthorization() of the running flow was answered non-2xx.
DeviceAuthRefused ==
    /\ Present(login.authAnswer)
    /\ login.authAnswer[1].kind = "http"

\* C24: when the device-code endpoint answers non-2xx,
\* requestDeviceAuthorization() fails with an error that carries the status
\* and the response body, and the flow ends failed without a single
\* pollDeviceToken() call and with no credentials set or written; it is the
\* flow as a whole that is tried again, with one request per flow.
C24_DeviceAuthFailureEndsFlow ==
    /\ login.authCalls = login.flows
    /\ DeviceAuthRefused =>
          /\ includes(login.authError, <<"failed", StatusText(login.authAnswer[1].status)>>)
          /\ includes(login.authError, <<"Response">> \o login.authAnswer[1].body)
          /\ login.pc \in {"flow_done", "exited"}
          /\ ~LastResult
          /\ login.flowPolls = 0
          /\ login.answers = << >>
          /\ login.writes = 0
          /\ ~HoldsDeviceToken
          /\ login.pc = "exited" => login.flows = maxRetries

C24_Witness ==
    /\ DeviceAuthRefused
    /\ login.authAnswer[1].status = 400
    /\ login.authAnswer[1].body = <<"invalid", "grant">>
    /\ login.pc = "flow_done"
    /\ login.flows = 2
    /\ login.pollCalls > 0

\* The characters the pattern [A-Za-z0-9_-] matches.
UpperCase ==
    {"A", "B", "C", "D", "E", "F", "G", "H", "I", "J", "K", "L", "M",
     "N", "O", "P", "Q", "R", "S", "T", "U", "V", "W", "X", "Y", "Z"}

LowerCase ==
    {"a", "b", "c", "d", "e", "f", "g", "h", "i", "j", "k", "l", "m",
     "n", "o", "p", "q", "r", "s", "t", "u", "v", "w", "x", "y", "z"}

Digits == {"0", "1", "2", "3", "4", "5", "6", "7", "8", "9"}

UrlSafeChars == UpperCase \cup LowerCase \cup Digits \cup {"_", "-"}

\* str matches ^[A-Za-z0-9_-]+$.
UrlSafe(str) ==
    /\ Len(str) >= 1
    /\ \A i \in 1 .. Len(str) : str[i] \in UrlSafeChars

Generated == pkce.verifier # << >>

\* C25: every value generateCodeVerifier() returns is 43 characters long,
\* which is within 43 .. 128, and matches ^[A-Za-z0-9_-]+$.
C25_VerifierLengthAndAlphabet ==
    Generated =>
        /\ Len(pkce.verifier) = 43
        /\ Len(pkce.verifier) \in 43 .. 128
        /\ UrlSafe(pkce.verifier)

C25_Witness ==
    /\ Generated
    /\ pkce.pair = None
    /\ \E i, j, k \in 1 .. Len(pkce.verifier) :
          /\ pkce.verifier[i] = "-"
          /\ pkce.verifier[j] = "_"
          /\ pkce.verifier[k] \in LowerCase

C27_SleepBetweenPolls == login.flowPolls <= login.flowSleeps + 1

\* The in-flight marker names a refresh that has not settled.
MarkerPending == refreshPromise # 0 => promises[refreshPromise].st = "pending"

\* What a call that awaited the settled promise p settles with.
OutcomeOf(p) ==
    IF promises[p].st = "fulfilled"
    THEN Ok(promises[p].tok)
    ELSE Failed(Err("Token refresh failed", promises[p].cause))

\* Every call that has settled after awaiting a refresh settled with the
\* outcome of that refresh.
AwaitersSettleWithOutcome ==
    \A t \in Tasks :
        (Done(t) /\ tasks[t].wait # 0) =>
            /\ promises[tasks[t].wait].st # "pending"
            /\ tasks[t].res = OutcomeOf(tasks[t].wait)

\* A refresh settles: the marker is cleared.  A call attaches: the refresh
\* it attaches to has not settled.
SettleClearsMarker ==
    /\ \A p \in 1 .. Len(promises) :
          (promises[p].st = "pending" /\ promises'[p].st # "pending") => refreshPromise' = 0
    /\ \A t \in Tasks :
          (tasks[t].pc = "idle" /\ tasks'[t].pc = "attached") =>
              promises[tasks'[t].wait].st = "pending"

CallPending(t) == tasks[t].pc \notin {"idle", "done"}

\* C28: whenever a refresh started by getValidToken() or refreshToken()
\* settles, by success or by failure, the in-flight marker is cleared and
\* every caller that awaited it settles with its outcome; once the requests
\* are answered no call remains pending, and a later call never attaches to
\* a refresh that has settled.
C28_SettledRefreshReleasesCallers ==
    /\ [](MarkerPending /\ AwaitersSettleWithOutcome)
    /\ [][SettleClearsMarker]_vars
    /\ \A t \in Tasks : CallPending(t) ~> Done(t)

\* A call attached to a refresh that another call started, the refresh
\* failed, and both calls have settled with that failure.
C28_Witness ==
    \E t, u \in Tasks :
        /\ t # u
        /\ Done(t) /\ Done(u)
        /\ tasks[t].wait # 0
        /\ tasks[u].wait = tasks[t].wait
        /\ promises[tasks[t].wait].creator = t
        /\ tasks[u].res.st = "err"
        /\ tasks[u].res = tasks[t].res
        /\ refreshPromise = 0

\* The request that the refresh behind promise p sent, if it sent one.
RequestOf(p) == {c \in 1 .. Len(requests) : requests[c].promise = p}

\* performTokenRefresh() behind promise p settles in this step.
Settles(p) == promises[p].st = "pending" /\ promises'[p].st # "pending"

\* refreshAccessToken() behind promise p returned credentials with an access
\* token, in the state after the step.
ReturnedToken(p) ==
    \E c \in RequestOf(p) :
        /\ requests'[c].st = "answered"
        /\ RefreshOk(requests'[c].answer[1])
        /\ requests'[c].answer[1].has_token

PerformTokenRefreshOutcome ==
    \A p \in 1 .. Len(promises) :
        Settles(p) =>
            LET creator == promises[p].creator
            IN IF ReturnedToken(p)
               THEN /\ promises'[p].st = "fulfilled"
                    /\ Present(promises'[p].tok)
                    /\ currentToken' = promises'[p].tok
                    /\ tasks'[creator].res = Ok(currentToken')
               ELSE /\ promises'[p].st = "rejected"
                    /\ promises'[p].cause # ""
                    /\ currentToken' = currentToken
                    /\ tasks'[creator].res = Failed(Err("Token refresh failed", promises'[p].cause))

\* C29: when refreshAccessToken() returns credentials without an access
\* token, or throws, performTokenRefresh() fails with a token-refresh error
\* and the manager's cached token keeps its value; when it succeeds the
\* cached token is the token returned to the caller.
C29_FailedRefreshKeepsCachedToken == [][PerformTokenRefreshOutcome]_vars

\* A refresh failed for want of an access token in a 2xx answer while the
\* manager held a cached token, which it still holds.
C29_Witness ==
    \E p \in 1 .. Len(promises) :
        /\ promises[p].st = "rejected"
        /\ promises[p].cause = "NoTokenReturned"
        /\ currentToken = Some(0)
        /\ tasks[promises[p].creator].res.st = "err"

\* Request c was answered 2xx with no refresh token in the answer.
AnsweredWithoutRefreshToken(reqs, c) ==
    /\ reqs[c].st = "answered"
    /\ RefreshOk(reqs[c].answer[1])
    /\ reqs[c].answer[1].kind = "flat" => ~reqs[c].answer[1].rotates

\* The refresh token the client held when the call behind request c was made.
StoredBeforeCall(c) == tasks[requests[c].task].snap[1].creds.refresh_token

LoadedBy(t) == Done(t) /\ tasks[t].kind = "load"

\* C31: the credentials file is never partially written: a load that
\* interleaves with a save reads the complete previous content or the
\* complete new content, never a truncated or mixed file.
C31_LoadNeverReadsPartialFile ==
    \A t \in Tasks : LoadedBy(t) => ~IsPartial(tasks[t].res.val)

\* The i-th poll of the running flow was answered 'success' with an access token.
GrantedAt(i) ==
    /\ login.answers[i].kind = "success"
    /\ login.answers[i].has_token

\* C35: within one flow, once a poll has been answered 'success' with an
\* access token no further pollDeviceToken() call is made and the flow
\* returns true; the client's credentials are set only in flows that return
\* true, also when writing the credentials file fails.
C35_GrantEndsPolling ==
    /\ \A i \in 1 .. Len(login.answers) :
          GrantedAt(i) =>
              /\ login.flowPolls = i
              /\ login.pc = "flow_done" => LastResult
    /\ (HoldsDeviceToken /\ login.pc \in {"flow_done", "exited"}) => LastResult

\* The fields of the credentials file that hold a part of a PKCE pair.
PKCEFields == {"code_verifier", "code_challenge"}

\* C32: each device flow generates its own PKCE pair: the code_verifier sent
\* with every poll of a flow belongs to the pair whose code_challenge that
\* flow sent, with method S256, in its device-authorization request; a flow
\* started after a failed one uses the pair of a new generatePKCEPair() call;
\* no verifier or challenge is written to the credentials file.
C32_PKCEPairPerFlow ==
    /\ Len(login.pairsByFlow) = login.flows
    /\ \A f, g \in 1 .. login.flows :
          f # g => login.pairsByFlow[f] # login.pairsByFlow[g]
    /\ login.flows >= 1 =>
          /\ login.authSent = Some([challenge_of |-> login.pairsByFlow[login.flows],
                                    method |-> "S256"])
          /\ Len(login.pollsSent) = login.flowPolls
          /\ \A i \in 1 .. Len(login.pollsSent) :
                login.pollsSent[i].verifier_of = login.authSent[1].challenge_of
    /\ file # None => DOMAIN file[1] \cap PKCEFields = {}

\* A flow started after a failed one has polled twice and written the
\* credentials file.
C32_Witness ==
    /\ login.flows = 2
    /\ Len(login.pollsSent) = 2
    /\ login.pollsSent[2].verifier_of = 2
    /\ login.writes = 1
    /\ file = Some(credentials)

\* The running flow has gone on to its polling loop: it has sent a poll, or
\* its loop has no attempt to make.
WentOnToPolling == login.flowPolls >= 1 \/ login.maxAttempts = 0

\* C33: the flow calls open() only when the launch of the browser is not
\* suppressed, once per flow whose device authorization was granted; however
\* the launch ends (open() resolves, open() rejects, the child process emits
\* 'error'), the flow goes on to its polling loop and the launch is never the
\* reason for its failure.
C33_BrowserLaunchBestEffort ==
    /\ login.suppressed => login.launches = 0 /\ login.launch = None
    /\ login.launches <= login.flows
    /\ login.pc = "open_wait" => ~login.suppressed /\ login.launch = None /\ login.flowPolls = 0
    /\ login.launch # None => WentOnToPolling
    /\ (~login.suppressed /\ login.flowPolls >= 1) => login.launch # None

\* open() rejected and the login still ended with the device token.
C33_Witness ==
    /\ login.launch = Some("threw")
    /\ login.pc = "returned"
    /\ LastResult
    /\ HoldsDeviceToken

\* Task t is the only call made so far.
OnlyCall(t) == \A u \in Tasks \ {t} : tasks[u].pc = "idle"

\* C34: a getValidToken() call with no other call beside it sends at most one
\* refresh request to the token endpoint, whatever credentials the client
\* holds and whatever the endpoint answers.
C34_SingleCallSendsOneRefresh ==
    \A t \in Tasks :
        (tasks[t].kind = "gvt" /\ OnlyCall(t)) => Cardinality(RequestsOf(t)) <= 1

\* No wrapped call is running.
NoCallRunning == \A t \in Tasks : tasks[t].pc \in {"idle", "done"}

\* The tokens that the operations now running have set as the apiKey.
KeysOfRunningOperations ==
    {tasks[t].ops[Len(tasks[t].ops)] : t \in {u \in Tasks : tasks[u].pc = "op"}}

\* C36: once every generateContent(), countTokens() and embedContent() call
\* made on one generator has completed, the client's apiKey is what it was
\* before the first of them started; and while an operation runs, the apiKey
\* is a token set by a running operation, not the value another call restored.
C36_ApiKeyRestoredUnderConcurrency ==
    /\ NoCallRunning => apiKey = None
    /\ KeysOfRunningOperations # {} => apiKey \in KeysOfRunningOperations

\* Task t is a clearToken() call and no call was started after it.
LastCallCleared(t) ==
    /\ tasks[t].kind = "clear"
    /\ \A u \in Tasks : u > t => tasks[u].pc = "idle"

\* C37: after clearToken() has returned and until another getValidToken() or
\* refreshToken() call is started, getCurrentToken() is null, also when a
\* refresh was in flight at the time of the clearToken() call.
C37_ClearedTokenStaysNull ==
    \A t \in Tasks : LastCallCleared(t) => currentToken = None

\* Request c is answered in this step with a failure: a network error or a
\* status that is not 2xx.
FailsNow(c) ==
    /\ requests[c].st = "inflight"
    /\ requests'[c].st = "answered"
    /\ ~RefreshOk(requests'[c].answer[1])

\* The refreshAccessToken() call behind promise p throws in this step for
\* want of a refresh token.
ThrowsNow(p) ==
    /\ promises[p].st = "pending"
    /\ promises[p].throws
    /\ promises'[p].st = "rejected"

\* A refreshAccessToken() call is made in this step.
CalledNow == Len(promises') > Len(promises)

\* C38: a refreshAccessToken() call that fails, for want of a refresh token,
\* by a network error, by HTTP 401 or by another non-2xx answer, writes nothing
\* to the client's credentials: neither the step that makes the call nor the
\* step in which it fails changes them.
C38_FailedRefreshKeepsCredentials ==
    [][((\E c \in 1 .. Len(requests) : FailsNow(c))
        \/ (\E p \in 1 .. Len(promises) : ThrowsNow(p))
        \/ CalledNow)
       => credentials' = credentials]_vars

\* A refresh refused with HTTP 401 is over and the client holds the
\* credentials, access token included, that it held when the call was made.
C38_Witness ==
    /\ \E c \in 1 .. Len(requests) :
          /\ requests[c].st = "answered"
          /\ requests[c].answer[1].kind = "http"
          /\ requests[c].answer[1].status = 401
          /\ credentials = tasks[requests[c].task].snap[1].creds
          /\ Present(credentials.access_token)

\* The request is on the path /oauth2callback, has no error parameter and
\* carries the state generated for this login.
ValidCallback(req) ==
    /\ req.path = "/oauth2callback"
    /\ req.error = "absent"
    /\ req.state = "generated"

\* C39: the callback server of authWithQwenWeb calls client.getToken() only
\* for a request on the path /oauth2callback with no error parameter and with
\* the state generated for this login; any other request leads to no token
\* exchange, sets no credentials and, being the first request, ends the login
\* as failed.
C39_ExchangeOnlyForValidCallback ==
    \A i \in 1 .. Len(web.handlers) :
        LET h == web.handlers[i]
        IN /\ h.exchange => ValidCallback(h.req)
           /\ ~ValidCallback(h.req) =>
                 /\ ~h.exchange
                 /\ ~h.stored
                 /\ i = 1 => web.login = "rejected"

====
